---- MODULE Spec2Model ----
(***************************************************************************)
(* A model of the csv-to-qb-iif ingestion core: the CSV normalizers        *)
(* (src/src/preload.js), the importers (src/src/importer.js) and the       *)
(* PostgreSQL store they write to (src/src/database.js).                   *)
(*                                                                         *)
(* Representation.  A text is a sequence of one-character strings; a date  *)
(* written out (MM/DD/YYYY, or a notation a cell uses) is one string and   *)
(* stands in a text as a single element.  A number read from a cell is     *)
(* counted in thousandths, money in cents, an average unit cost            *)
(* (NUMERIC(12,4)) in ten-thousandths.                                     *)
(* A table is the sequence of its rows in insertion order and a SERIAL id  *)
(* is the row's position (invoice_lines, the one table rows are deleted    *)
(* from, has no id in the model).  SQL NULL is NullText in a text column,  *)
(* NullNum in a numeric column and NullId in an id column.                 *)
(***************************************************************************)
EXTENDS Integers, Sequences, FiniteSets, TLC

VARIABLES
    db,      \* the tables of the store
    before,  \* the tables as they were when the last call started
    call,    \* the last call of the API: its name, arguments and outcome
    log,     \* the calls made so far, oldest first
    proc     \* the concurrent calls in flight: each one's position and locals

vars == <<db, before, call, log, proc>>

----------------------------------------------------------------------------
(* Sequences *)

Range(s) == {s[i] : i \in 1..Len(s)}

RECURSIVE SumSeq(_)
SumSeq(s) == IF s = <<>> THEN 0 ELSE Head(s) + SumSeq(Tail(s))

\* Op applied to the value of v: v is computed once, however often Op uses it.
With(v, Op(_)) == CHOOSE y \in {Op(x) : x \in {v}} : TRUE

\* The sequences over S of length lo..hi.
SeqsOf(S, lo, hi) == UNION {[1..n -> S] : n \in lo..hi}

----------------------------------------------------------------------------
(* Texts *)

Uppers == <<"A","B","C","D","E","F","G","H","I","J","K","L","M",
            "N","O","P","Q","R","S","T","U","V","W","X","Y","Z">>
Lowers == <<"a","b","c","d","e","f","g","h","i","j","k","l","m",
            "n","o","p","q","r","s","t","u","v","w","x","y","z">>

LowerChar(c) ==
    IF \E i \in 1..Len(Uppers) : Uppers[i] = c
    THEN Lowers[CHOOSE i \in 1..Len(Uppers) : Uppers[i] = c]
    ELSE c

\* String.prototype.toLowerCase
toLowerCase(s) == [i \in 1..Len(s) |-> LowerChar(s[i])]

Digits == <<"0","1","2","3","4","5","6","7","8","9">>

IsDigit(c) == \E i \in 1..Len(Digits) : Digits[i] = c

DigitVal(c) == (CHOOSE i \in 1..Len(Digits) : Digits[i] = c) - 1

\* The regular expression class \s, over the characters the texts use.
IsSpace(c) == c \in {" ", "\t", "\r", "\n"}

\* Number(digits) of a text of decimal digits.
RECURSIVE DecimalValue(_)
DecimalValue(ds) ==
    IF ds = <<>> THEN 0
    ELSE 10 * DecimalValue(SubSeq(ds, 1, Len(ds) - 1)) + DigitVal(ds[Len(ds)])

\* sanitize: tab, carriage return and newline become a space, quotes go.
SanitizeChar(c) == IF c \in {"\t", "\r", "\n"} THEN " " ELSE c

sanitize(value) ==
    LET spaced == [i \in 1..Len(value) |-> SanitizeChar(value[i])]
    IN  SelectSeq(spaced, LAMBDA c : c # "\"")

----------------------------------------------------------------------------
(* Numbers read from cells *)

\* The characters String.replace(/[^0-9.-]/g, '') keeps.
StripNonNumeric(s) == SelectSeq(s, LAMBDA c : IsDigit(c) \/ c = "." \/ c = "-")

CountOf(s, c) == Cardinality({i \in 1..Len(s) : s[i] = c})

\* The first three decimals of a fraction, as thousandths.
FractionThousandths(f) ==
    LET d(i) == IF i <= Len(f) THEN DigitVal(f[i]) ELSE 0
    IN  100 * d(1) + 10 * d(2) + d(3)

\* Number(s) for a text s of digits, dots and minus signs, in thousandths;
\* NaN is reported as [nan |-> TRUE].  The cells of the model carry at most
\* three decimals.
NumberOf(s) ==
    LET neg  == Len(s) > 0 /\ s[1] = "-"
        body == IF neg THEN Tail(s) ELSE s
        dot  == IF CountOf(body, ".") = 1
                THEN CHOOSE i \in 1..Len(body) : body[i] = "."
                ELSE Len(body) + 1
        int  == SubSeq(body, 1, dot - 1)
        frac == SubSeq(body, dot + 1, Len(body))
        abs  == 1000 * DecimalValue(int) + FractionThousandths(frac)
    IN  IF s = <<>> THEN [nan |-> FALSE, val |-> 0]
        ELSE IF CountOf(body, "-") > 0 \/ CountOf(body, ".") > 1
                \/ Len(int) + Len(frac) = 0
        THEN [nan |-> TRUE, val |-> 0]
        ELSE [nan |-> FALSE, val |-> IF neg THEN 0 - abs ELSE abs]

\* Number(String(cell).replace(/[^0-9.-]/g, '')) || 0, in thousandths.
NumberOrZero(cell) ==
    LET n == NumberOf(StripNonNumeric(cell))
    IN  IF n.nan THEN 0 ELSE n.val

\* Math.round(x * 100) / 100 for x given in millionths: the result in cents
\* (Math.round rounds a half towards positive infinity).
RoundMillionthsToCents(x) == (x + 5000) \div 10000

\* Math.round(x * 100) / 100 for x given in thousandths: the result in cents.
RoundThousandthsToCents(x) == (x + 5) \div 10

----------------------------------------------------------------------------
(* Dates *)

IsLeap(y) == (y % 4 = 0 /\ y % 100 # 0) \/ y % 400 = 0

DaysInMonth(y, m) ==
    CASE m \in {4, 6, 9, 11} -> 30
      [] m = 2 -> IF IsLeap(y) THEN 29 ELSE 28
      [] OTHER -> 31

Mdy(m, d, y) == [m |-> m, d |-> d, y |-> y]

Pad2(n) == IF n < 10 THEN "0" \o ToString(n) ELSE ToString(n)

\* dayjs format('MM/DD/YYYY'): the date as one ten-character string.  A date
\* text is the one-element text holding it.
FormatMdy(date) == Pad2(date.m) \o "/" \o Pad2(date.d) \o "/" \o ToString(date.y)

\* The calendar dates that occur in the cells of the model's files.
FileDates ==
    {Mdy(1, 5, 2024), Mdy(1, 6, 2024), Mdy(2, 28, 2023), Mdy(2, 28, 2024),
     Mdy(12, 15, 2024), Mdy(12, 31, 2023)}

\* dayjs(dateStr, 'MM/DD/YYYY'): the date a text denotes.  A text that is not
\* one MM/DD/YYYY string is not a valid date.
IsDateText(t) == Len(t) = 1 /\ \E date \in FileDates : FormatMdy(date) = t[1]

ParseMdy(t) == CHOOSE date \in FileDates : FormatMdy(date) = t[1]

\* Date.prototype.setDate with a day past the end of the month: the date
\* rolls over into the following months (dayjs add(n, 'day')).
RECURSIVE RollOver(_, _, _)
RollOver(y, m, d) ==
    IF d <= DaysInMonth(y, m) THEN Mdy(m, d, y)
    ELSE IF m = 12 THEN RollOver(y + 1, 1, d - DaysInMonth(y, m))
    ELSE RollOver(y, m + 1, d - DaysInMonth(y, m))

AddDays(date, n) == RollOver(date.y, date.m, date.d + n)

RECURSIVE SkipSpaces(_, _)
SkipSpaces(t, i) == IF i <= Len(t) /\ IsSpace(t[i]) THEN SkipSpaces(t, i + 1) ELSE i

RECURSIVE TakeDigits(_, _, _)
TakeDigits(t, i, max) ==
    IF max > 0 /\ i <= Len(t) /\ IsDigit(t[i])
    THEN <<t[i]>> \o TakeDigits(t, i + 1, max - 1)
    ELSE <<>>

\* The digits captured by t.match(/^net\s+(\d{1,3})/), or <<>> when t does
\* not match.
netMatch(t) ==
    IF Len(t) >= 5 /\ SubSeq(t, 1, 3) = <<"n","e","t">> /\ IsSpace(t[4])
    THEN TakeDigits(t, SkipSpaces(t, 4), 3)
    ELSE <<>>

computeDueDate(dateStr, terms) ==
    IF dateStr = <<>> THEN <<>>
    ELSE LET captured == netMatch(toLowerCase(terms))
         IN  IF captured # <<>> /\ IsDateText(dateStr)
             THEN <<FormatMdy(AddDays(ParseMdy(dateStr), DecimalValue(captured)))>>
             ELSE dateStr

----------------------------------------------------------------------------
(* parseBillsFromCsv *)

\* A parsed CSV: keys, the header row in file order, and rows, each row a
\* function from the keys to cells (texts).

\* k.toLowerCase().trim(), over the header spellings the files use.
HeaderKey(k) ==
    CASE k = "Vendor" -> "vendor"
      [] k = "RefNumber" -> "refnumber"
      [] k = "Item" -> "item"
      [] k = "Qty" -> "qty"
      [] k = "Cost" -> "cost"
      [] k = "Date" -> "date"
      [] k = "Terms" -> "terms"
      [] k = "Description" -> "description"
      [] k = "PO_ID" -> "po_id"
      [] k = "Invoice Number" -> "invoice number"
      [] k = "InvoiceID" -> "invoiceid"
      [] k = "Customer" -> "customer"
      [] k = "CustomerID" -> "customerid"
      [] k = "Unit Price" -> "unit price"
      [] k = "Total" -> "total"
      [] k = "Batch Number" -> "batch number"
      [] k = "Transfer Description" -> "transfer description"
      [] k = "Effective Date" -> "effective date"
      [] k = "Reference Number" -> "reference number"
      [] k = "DR Amount" -> "dr amount"
      [] k = "CR Amount" -> "cr amount"
      [] k = "Amount" -> "amount"
      [] k = "Type" -> "type"
      [] k = " PO_ID " -> "po_id"
      [] k = "VENDOR" -> "vendor"
      [] OTHER -> k

\* row[h], the empty text standing for undefined.
Cell(row, h) == IF h \in DOMAIN row THEN row[h] ELSE <<>>

\* row[h1] || row[h2] || ...: the first cell that is not empty.
RECURSIVE FirstCell(_, _)
FirstCell(row, hs) ==
    IF hs = <<>> THEN <<>>
    ELSE IF Cell(row, Head(hs)) # <<>> THEN Cell(row, Head(hs))
    ELSE FirstCell(row, Tail(hs))

NoCol == ""

RECURSIVE findActualCol(_, _)
findActualCol(keys, syns) ==
    IF syns = <<>> THEN NoCol
    ELSE LET hits == {i \in 1..Len(keys) : HeaderKey(keys[i]) = Head(syns)}
         IN  IF hits # {}
             THEN keys[CHOOSE i \in hits : \A j \in hits : i <= j]
             ELSE findActualCol(keys, Tail(syns))

VendorSyns == <<"vendor", "supplier", "vendor name">>
RefSyns == <<"refnumber", "ref number", "reference", "reference number", "docnum", "document number">>
ItemSyns == <<"item", "item code", "sku", "product", "product code">>
QtySyns == <<"qty", "quantity", "qnty">>
CostSyns == <<"cost", "unit cost", "price", "unit price", "rate">>

\* The current date of a run (dayjs(), new Date()).
Today == Mdy(12, 15, 2024)

\* The date a cell's notation denotes, for the notations dayjs reads.
DateNotations ==
    [n \in {"01/05/2024", "1/5/2024", "2024-01-05"} |-> Mdy(1, 5, 2024)]
    @@ [n \in {"01/06/2024"} |-> Mdy(1, 6, 2024)]

\* formatDate: the cell's date as MM/DD/YYYY; the current date for an empty
\* cell and for one dayjs cannot read.
formatDate(input, today) ==
    IF input = <<>> THEN <<FormatMdy(today)>>
    ELSE IF Len(input) = 1 /\ input[1] \in DOMAIN DateNotations
    THEN <<FormatMdy(DateNotations[input[1]])>>
    ELSE <<FormatMdy(today)>>

DateHeaders == <<"Date", "TxnDate", "Transaction Date", "PO Date", "DocDate", "PODate", "DATE">>

KeySeparator == <<"|", "|">>

\* `${vendor}||${ref}||${date}`
GroupKey(vendor, ref, date) == vendor \o KeySeparator \o ref \o KeySeparator \o date

\* String.prototype.split('||'): the pieces of s from position i on, cur the
\* piece being read.
RECURSIVE SplitFrom(_, _, _)
SplitFrom(s, i, cur) ==
    IF i > Len(s) THEN <<cur>>
    ELSE IF i < Len(s) /\ s[i] = "|" /\ s[i + 1] = "|"
    THEN <<cur>> \o SplitFrom(s, i + 2, <<>>)
    ELSE SplitFrom(s, i + 1, Append(cur, s[i]))

SplitKey(key) == SplitFrom(key, 1, <<>>)

\* The elements of s in the order of their first occurrence (the key order
\* of a Map).
RECURSIVE Distinct(_)
Distinct(s) ==
    IF s = <<>> THEN <<>>
    ELSE LET r == Distinct(SubSeq(s, 1, Len(s) - 1))
         IN  IF s[Len(s)] \in Range(r) THEN r ELSE Append(r, s[Len(s)])

DefaultTerms == <<"D","u","e"," ","u","p","o","n"," ","r","e","c","e","i","p","t">>

RowTerms(r) == sanitize(FirstCell(r, <<"Terms", "Payment Terms", "Term">>))

\* The first non-empty terms cell of the group's rows.
RECURSIVE inferTerms(_)
inferTerms(rows) ==
    IF rows = <<>> THEN <<>>
    ELSE IF RowTerms(Head(rows)) # <<>> THEN RowTerms(Head(rows))
    ELSE inferTerms(Tail(rows))

BillLine(r, itemCol, qtyCol, costCol) ==
    LET qty == NumberOrZero(Cell(r, qtyCol))
        cost == NumberOrZero(Cell(r, costCol))
        lineAmount == RoundMillionthsToCents(qty * cost)
    IN  [item |-> sanitize(Cell(r, itemCol)),
         description |-> sanitize(FirstCell(r, <<"Description", "Item Description">>)),
         quantity |-> qty,
         unit_cost |-> RoundThousandthsToCents(cost),
         line_amount |-> lineAmount]

BuildBill(key, rows, itemCol, qtyCol, costCol) ==
    LET parts == SplitKey(key)
        lines == [i \in 1..Len(rows) |-> BillLine(rows[i], itemCol, qtyCol, costCol)]
        terms == IF inferTerms(rows) # <<>> THEN inferTerms(rows) ELSE DefaultTerms
    IN  [vendor |-> parts[1], ref_num |-> parts[2], date |-> parts[3],
         total_amount |-> SumSeq([i \in 1..Len(lines) |-> lines[i].line_amount]),
         due_date |-> computeDueDate(parts[3], terms),
         terms |-> terms,
         lines |-> lines]

\* A thrown Error: its message and, for a missing-columns error, the roles
\* the message lists.
Throw(message, missing) ==
    [ok |-> FALSE, error |-> message, missing |-> missing, bills |-> <<>>]

parseBillsFromCsv(content, today) ==
    LET keys == content.keys
        records == content.rows
        vendorCol == findActualCol(keys, VendorSyns)
        refCol == findActualCol(keys, RefSyns)
        itemCol == findActualCol(keys, ItemSyns)
        qtyCol == findActualCol(keys, QtySyns)
        costCol == findActualCol(keys, CostSyns)
        rowKey(row) ==
            GroupKey(sanitize(Cell(row, vendorCol)), sanitize(Cell(row, refCol)),
                     formatDate(FirstCell(row, DateHeaders), today))
        grouped == SelectSeq(records, LAMBDA row :
                       sanitize(Cell(row, vendorCol)) # <<>> /\ sanitize(Cell(row, refCol)) # <<>>)
        groupKeys == Distinct([i \in 1..Len(grouped) |-> rowKey(grouped[i])])
        bills == [g \in 1..Len(groupKeys) |->
                    BuildBill(groupKeys[g],
                              SelectSeq(grouped, LAMBDA row : rowKey(row) = groupKeys[g]),
                              itemCol, qtyCol, costCol)]
        cols == <<vendorCol, refCol, itemCol, qtyCol, costCol>>
        roles == <<"vendor", "refnumber", "item", "qty", "cost">>
        missing == [j \in 1..Cardinality({i \in 1..5 : cols[i] = NoCol}) |->
                      roles[CHOOSE i \in 1..5 :
                                /\ cols[i] = NoCol
                                /\ Cardinality({k \in 1..i : cols[k] = NoCol}) = j]]
    IN  IF records = <<>> THEN Throw("CSV is empty or could not be parsed.", <<>>)
        ELSE IF missing # <<>> THEN Throw("Missing required columns for PO", missing)
        ELSE IF bills = <<>>
        THEN Throw("No valid bills found (missing Vendor/RefNumber on rows).", <<>>)
        ELSE [ok |-> TRUE, error |-> "", missing |-> <<>>, bills |-> bills]

----------------------------------------------------------------------------
(* The store: tables, keys and constraints (Database.init) *)

\* SQL NULL in a text column, in a numeric column and in an id column.  A
\* NULL never equals anything, itself included.
NullText == <<"NULL">>
NullNum == 0 - 999999999
NullId == 0 - 0

\* JavaScript's `value || null` as a bound parameter: the empty text, null
\* and undefined bind as NULL; so do the numbers 0 and NaN.
TextOrNull(v) == IF v = <<>> THEN NullText ELSE v
NumOrNull(n) == IF n.nan \/ n.val = 0 THEN NullNum ELSE n.val

\* NUMERIC(_,2) keeps cents, rounding half away from zero.
RoundHalfAway(x, unit) == IF x >= 0 THEN (x + unit \div 2) \div unit
                                    ELSE 0 - ((unit \div 2 - x) \div unit)
CentsOrNull(n) == IF NumOrNull(n) = NullNum THEN NullNum ELSE RoundHalfAway(n.val, 10)

TableNames ==
    {"ledger_sources", "import_metadata", "import_records", "csv_imports",
     "transactions", "line_items", "inventory", "inventory_transactions",
     "clients", "msp_tenants", "customers", "catalog_items", "invoices",
     "invoice_lines", "ledger_transactions", "ledger_links", "bank_transactions",
     "locations", "contacts", "contracts", "exports", "export_transactions",
     "qbd_accounts"}

\* The store after init(): every table empty, no UUID handed out yet.
EmptyDb == [t \in TableNames \cup {"uuids"} |-> IF t = "uuids" THEN 0 ELSE <<>>]

\* The tables of d alone.
Tables(d) == [t \in TableNames |-> d[t]]

Insert(d, table, row) == [d EXCEPT ![table] = Append(@, row)]

\* The ids (positions) of the rows of a table that satisfy Test.
Ids(d, table, Test(_)) == {i \in 1..Len(d[table]) : Test(d[table][i])}

MinOf(S) == CHOOSE x \in S : \A y \in S : x <= y
MaxOf(S) == CHOOSE x \in S : \A y \in S : x >= y

\* The rows that block an INSERT under UNIQUE (source_id, external_id): a NULL
\* external_id conflicts with nothing.
SourceKeyConflicts(d, table, sourceId, externalId) ==
    IF externalId = NullText THEN {}
    ELSE Ids(d, table, LAMBDA r : r.source_id = sourceId /\ r.external_id = externalId)

----------------------------------------------------------------------------
(* Identity resolution *)

\* getOrCreateSource: SELECT by name, else INSERT.
SourceIds(d, name) == Ids(d, "ledger_sources", LAMBDA r : r.name = name)

getOrCreateSource(d, name) ==
    IF SourceIds(d, name) # {}
    THEN [db |-> d, id |-> MinOf(SourceIds(d, name))]
    ELSE [db |-> Insert(d, "ledger_sources", [name |-> name, source_type |-> "csv"]),
          id |-> Len(d.ledger_sources) + 1]

\* SELECT ... WHERE source_id = $1 AND external_id = $2
EntityByExt(d, table, sourceId, externalId) ==
    Ids(d, table, LAMBDA r : externalId # NullText /\ r.source_id = sourceId
                              /\ r.external_id = externalId)

\* A lookup by name that compares the letters as they are.
ExactName(d, table, name) == Ids(d, table, LAMBDA r : name # NullText /\ r.name = name)

\* SELECT ... WHERE LOWER(name) = LOWER($1) ORDER BY id DESC LIMIT 1
EntityByName(d, table, name) ==
    Ids(d, table, LAMBDA r : name # NullText /\ toLowerCase(r.name) = toLowerCase(name))

\* crypto.randomUUID() and the INSERT of a client or tenant row.  The INSERT
\* fails on a NULL name (name TEXT NOT NULL) and on a (source_id,
\* external_id) that a row already has.
EntityInsert(d, table, sourceId, externalId, name) ==
    LET uuid == d.uuids + 1
        d1 == [d EXCEPT !.uuids = uuid]
    IN  IF name = NullText \/ SourceKeyConflicts(d, table, sourceId, externalId) # {}
        THEN [ok |-> FALSE, db |-> d1, id |-> NullId, uuid |-> NullId]
        ELSE [ok |-> TRUE,
              db |-> Insert(d1, table, [source_id |-> sourceId, external_id |-> externalId,
                                        name |-> name, uuid |-> uuid]),
              id |-> Len(d[table]) + 1, uuid |-> uuid]

Found(d, table, id) == [ok |-> TRUE, db |-> d, id |-> id, uuid |-> d[table][id].uuid]

\* The shared body of getOrCreateClient and getOrCreateTenant.
getOrCreateEntity(d, table, sourceName, externalId, name) ==
    With(getOrCreateSource(d, sourceName), LAMBDA s :
    With(EntityByExt(s.db, table, s.id, externalId), LAMBDA byExt :
    With(EntityByName(s.db, table, name), LAMBDA byName :
        IF externalId # NullText /\ byExt # {} THEN Found(s.db, table, MinOf(byExt))
        ELSE IF byName # {} THEN Found(s.db, table, MaxOf(byName))
        ELSE EntityInsert(s.db, table, s.id, externalId, name))))

getOrCreateClient(d, sourceName, externalId, name) ==
    getOrCreateEntity(d, "clients", sourceName, externalId, name)

getOrCreateTenant(d, sourceName, externalId, name) ==
    getOrCreateEntity(d, "msp_tenants", sourceName, externalId, name)

\* SELECT id FROM clients WHERE msp_customer_uuid = $1, and the same for
\* locations by msp_location_uuid.
ByUuid(d, table, uuid) == Ids(d, table, LAMBDA r : r.uuid = uuid)

\* The tail shared by upsertLocation, upsertContract and upsertContact: the
\* row with the same (source_id, external_id) is updated with the columns
\* of the UPDATE statement, else a row is inserted under the UUID given or
\* a fresh one.  The INSERT fails on a UUID that a row already has.
UpdateOrInsert(d, table, sourceId, child, updated, inserted) ==
    With(EntityByExt(d, table, sourceId, TextOrNull(child.external_id)), LAMBDA existing :
    With(IF child.uuid = NullId THEN [d EXCEPT !.uuids = @ + 1] ELSE d, LAMBDA d1 :
    With(IF child.uuid = NullId THEN d1.uuids ELSE child.uuid, LAMBDA uuid :
        IF existing # {}
        THEN [ok |-> TRUE, id |-> MinOf(existing), error |-> "",
              db |-> [d1 EXCEPT ![table][MinOf(existing)] =
                         [f \in DOMAIN @ |-> IF f \in DOMAIN updated THEN updated[f] ELSE @[f]]]]
        ELSE IF ByUuid(d1, table, uuid) # {}
        THEN [ok |-> FALSE, id |-> NullId, error |-> "duplicate key value", db |-> d1]
        ELSE [ok |-> TRUE, id |-> Len(d1[table]) + 1, error |-> "",
              db |-> Insert(d1, table, inserted @@ [uuid |-> uuid, source_id |-> sourceId,
                                external_id |-> TextOrNull(child.external_id)])])))

ClientNotFound(d) ==
    [ok |-> FALSE, id |-> NullId, db |-> d,
     error |-> "Client not found for provided msp_customer_uuid"]

\* The id of the location with the UUID, NULL when none is given or none
\* has it.
LocationIdOf(d, locationUuid) ==
    IF locationUuid = NullId \/ ByUuid(d, "locations", locationUuid) = {} THEN NullId
    ELSE MinOf(ByUuid(d, "locations", locationUuid))

upsertLocation(d, sourceName, clientUuid, location) ==
    With(getOrCreateSource(d, sourceName), LAMBDA s :
        IF ByUuid(s.db, "clients", clientUuid) = {} THEN ClientNotFound(s.db)
        ELSE UpdateOrInsert(s.db, "locations", s.id, location,
                 [name |-> TextOrNull(location.name)],
                 [client_id |-> MinOf(ByUuid(s.db, "clients", clientUuid)),
                  name |-> TextOrNull(location.name)]))

upsertContract(d, sourceName, clientUuid, contract, locationUuid) ==
    With(getOrCreateSource(d, sourceName), LAMBDA s :
        IF ByUuid(s.db, "clients", clientUuid) = {} THEN ClientNotFound(s.db)
        ELSE UpdateOrInsert(s.db, "contracts", s.id, contract,
                 [name |-> TextOrNull(contract.name),
                  location_id |-> LocationIdOf(s.db, locationUuid)],
                 [client_id |-> MinOf(ByUuid(s.db, "clients", clientUuid)),
                  location_id |-> LocationIdOf(s.db, locationUuid),
                  name |-> TextOrNull(contract.name)]))

upsertContact(d, sourceName, clientUuid, contact, locationUuid) ==
    With(getOrCreateSource(d, sourceName), LAMBDA s :
        IF ByUuid(s.db, "clients", clientUuid) = {} THEN ClientNotFound(s.db)
        ELSE UpdateOrInsert(s.db, "contacts", s.id, contact,
                 [first_name |-> TextOrNull(contact.first_name),
                  client_id |-> MinOf(ByUuid(s.db, "clients", clientUuid)),
                  location_id |-> LocationIdOf(s.db, locationUuid)],
                 [client_id |-> MinOf(ByUuid(s.db, "clients", clientUuid)),
                  location_id |-> LocationIdOf(s.db, locationUuid),
                  first_name |-> TextOrNull(contact.first_name)]))

\* upsertCustomer.  Its statements run on connections of their own, outside
\* any transaction of the caller: each is committed as it completes.
upsertCustomer(d, sourceName, customer) ==
    With(getOrCreateSource(d, sourceName), LAMBDA s :
    With(TextOrNull(customer.external_id), LAMBDA ext :
    With(TextOrNull(customer.name), LAMBDA name :
    With(getOrCreateClient(s.db, sourceName, ext, name), LAMBDA c :
    With(getOrCreateTenant(c.db, sourceName, ext, name), LAMBDA t :
    With([source_id |-> s.id, external_id |-> ext,
          name |-> name, tenant_id |-> t.id, msp_tenant_uuid |-> t.uuid,
          client_id |-> c.id, msp_customer_uuid |-> c.uuid], LAMBDA row :
    With(SourceKeyConflicts(t.db, "customers", s.id, ext), LAMBDA hit :
        IF ~c.ok THEN [ok |-> FALSE, db |-> c.db, id |-> NullId]
        ELSE IF ~t.ok THEN [ok |-> FALSE, db |-> t.db, id |-> NullId]
        ELSE IF hit # {}
        THEN [ok |-> TRUE, db |-> [t.db EXCEPT !.customers[MinOf(hit)] = row], id |-> MinOf(hit)]
        ELSE [ok |-> TRUE, db |-> Insert(t.db, "customers", row),
              id |-> Len(t.db.customers) + 1])))))))

----------------------------------------------------------------------------
(* Invoices *)

\* One INSERT INTO invoice_lines as upsertInvoiceWithLines binds it.
InvoiceLineRow(d, sourceId, invoiceId, ln) ==
    LET items == Ids(d, "catalog_items",
                     LAMBDA r : r.source_id = sourceId /\ r.item_code = ln.item_code)
    IN  [invoice_id |-> invoiceId,
         item_id |-> IF ln.item_code # <<>> /\ items # {} THEN MinOf(items) ELSE NullId,
         description |-> TextOrNull(ln.description),
         quantity |-> NumOrNull(ln.quantity),
         unit_price |-> NumOrNull(ln.unit_price),
         line_total |-> CentsOrNull(ln.line_total)]

\* The loop over lines: every line is inserted, in order.
RECURSIVE InsertInvoiceLines(_, _, _, _)
InsertInvoiceLines(d, sourceId, invoiceId, lines) ==
    IF lines = <<>> THEN d
    ELSE InsertInvoiceLines(Insert(d, "invoice_lines",
                                   InvoiceLineRow(d, sourceId, invoiceId, Head(lines))),
                            sourceId, invoiceId, Tail(lines))

\* A replacement that forgets to delete.
KeepInvoiceLines(d, invoiceId) == d

DeleteInvoiceLines(d, invoiceId) ==
    [d EXCEPT !.invoice_lines = SelectSeq(@, LAMBDA r : r.invoice_id # invoiceId)]

\* INSERT INTO ledger_transactions ... ON CONFLICT (source_id, external_id) DO NOTHING
InsertLedger(d, row) ==
    IF SourceKeyConflicts(d, "ledger_transactions", row.source_id, row.external_id) # {}
    THEN [db |-> d, id |-> NullId]
    ELSE [db |-> Insert(d, "ledger_transactions", row), id |-> Len(d.ledger_transactions) + 1]

\* upsertInvoiceWithLines.  The source and the customer are written on other
\* connections, outside the transaction: a failure of upsertCustomer leaves
\* what it had written.  The statements between BEGIN and COMMIT do not
\* fail on the invoices of the model.
upsertInvoiceWithLines(d, sourceName, invoice, lines) ==
    With(getOrCreateSource(d, sourceName), LAMBDA s :
    With(upsertCustomer(s.db, sourceName, invoice.customer), LAMBDA c :
    With(TextOrNull(invoice.external_id), LAMBDA ext :
    With(CentsOrNull(invoice.total), LAMBDA total :
    With([source_id |-> s.id, external_id |-> ext,
          number |-> TextOrNull(invoice.number), customer_id |-> c.id,
          total |-> total], LAMBDA row :
    With(SourceKeyConflicts(c.db, "invoices", s.id, ext), LAMBDA hit :
    With(IF hit # {} THEN MinOf(hit) ELSE Len(c.db.invoices) + 1, LAMBDA invoiceId :
    With(IF hit # {} THEN [c.db EXCEPT !.invoices[invoiceId] = row]
         ELSE Insert(c.db, "invoices", row), LAMBDA upserted :
    With(InsertInvoiceLines(DeleteInvoiceLines(upserted, invoiceId), s.id,
                            invoiceId, lines), LAMBDA inserted :
    With(InsertLedger(inserted,
             [source_id |-> s.id,
              external_id |-> IF invoice.external_id # <<>> THEN invoice.external_id
                              ELSE TextOrNull(invoice.number),
              txn_type |-> "invoice",
              amount |-> IF total = NullNum THEN 0 ELSE total]), LAMBDA ledger :
        IF ~c.ok THEN [ok |-> FALSE, db |-> c.db, id |-> NullId]
        ELSE [ok |-> TRUE, db |-> ledger.db, id |-> invoiceId]))))))))))

----------------------------------------------------------------------------
(* Import bookkeeping *)

\* A file: its name, keys (the header row in file order) and rows.  The
\* content of the file is what its keys and rows spell.

\* md5 of the JSON text of obj, taken to be free of collisions.
hashRow(obj) == <<"md5", obj>>

\* String.prototype.trim
RECURSIVE TrimEnd(_)
TrimEnd(s) == IF s # <<>> /\ IsSpace(s[Len(s)]) THEN TrimEnd(SubSeq(s, 1, Len(s) - 1)) ELSE s
Trim(s) == TrimEnd(SubSeq(s, SkipSpaces(s, 1), Len(s)))

createImportMetadata(d, sourceName, importType, file) ==
    With(getOrCreateSource(d, sourceName), LAMBDA s :
        [db |-> Insert(s.db, "import_metadata",
                       [source_id |-> s.id, import_type |-> importType,
                        original_filename |-> file.filename, row_count |-> Len(file.rows)]),
         id |-> Len(d.import_metadata) + 1])

\* addImportRecords: one import_records row per record, in one transaction.
addImportRecords(d, importMetadataId, records) ==
    [d EXCEPT !.import_records =
        @ \o [i \in 1..Len(records) |->
                [import_metadata_id |-> importMetadataId,
                 external_id |-> TextOrNull(records[i].external_id),
                 checksum |-> records[i].checksum]]]

\* The records importFile's normalizers hand to addImportRecords.
ImportRecords(rows, idHeaders) ==
    [i \in 1..Len(rows) |->
        [external_id |-> FirstCell(rows[i], idHeaders), checksum |-> hashRow(rows[i])]]

\* A thrown Error and a returned result, with the store the call leaves.
Thrown(d, message) == [ok |-> FALSE, db |-> d, result |-> [error |-> message]]
Returned(d, result) == [ok |-> TRUE, db |-> d, result |-> result]

----------------------------------------------------------------------------
(* importHaloInvoices *)

\* parseNum.  A cell that is absent gives null, which every use treats as
\* it treats 0 and NaN (`|| null`, `|| 0`): null is carried as NaN.
parseNum(row, hs) ==
    IF \A i \in 1..Len(hs) : hs[i] \notin DOMAIN row THEN [nan |-> TRUE, val |-> 0]
    ELSE NumberOf(StripNonNumeric(FirstCell(row, hs)))

\* The key a row is grouped under: num || extId || hashRow({ r })
HaloKey(r) ==
    LET num == Trim(FirstCell(r, <<"Invoice Number", "Number", "Invoice", "INV",
                                   "Document Number">>))
        extId == Trim(FirstCell(r, <<"InvoiceID", "Invoice ID", "ID">>))
    IN  IF num # <<>> THEN <<"text", num>>
        ELSE IF extId # <<>> THEN <<"text", extId>>
        ELSE hashRow(r)

\* The groups of the Map, in the order their keys were first set.
HaloGroups(rows) ==
    LET keys == Distinct([i \in 1..Len(rows) |-> HaloKey(rows[i])])
    IN  [g \in 1..Len(keys) |-> SelectSeq(rows, LAMBDA r : HaloKey(r) = keys[g])]

HaloInvoice(head) ==
    [external_id |-> Trim(FirstCell(head, <<"InvoiceID", "Invoice ID", "ID", "Number",
                                            "Document Number">>)),
     number |-> Trim(FirstCell(head, <<"Invoice Number", "Number", "Document Number">>)),
     total |-> parseNum(head, <<"Total">>),
     customer |-> [external_id |-> FirstCell(head, <<"CustomerID", "Customer Id",
                                                      "Customer ID">>),
                   name |-> FirstCell(head, <<"Customer", "Customer Name", "Account Name">>)]]

\* Number((qtyN * priceN).toFixed(2)), in thousandths.
LineTotalOf(qtyN, priceN) ==
    [nan |-> qtyN.nan \/ priceN.nan,
     val |-> IF qtyN.nan \/ priceN.nan THEN 0
             ELSE RoundHalfAway(qtyN.val * priceN.val, 10000) * 10]

HaloLine(r) ==
    With(parseNum(r, <<"Qty", "Quantity">>), LAMBDA qtyN :
    With(parseNum(r, <<"Unit Price", "Price">>), LAMBDA priceN :
        [item_code |-> FirstCell(r, <<"Item Code", "Item", "SKU">>),
         description |-> FirstCell(r, <<"Description", "Item Description">>),
         quantity |-> qtyN,
         unit_price |-> priceN,
         line_total |-> IF "Line Total" \in DOMAIN r THEN parseNum(r, <<"Line Total">>)
                        ELSE LineTotalOf(qtyN, priceN)]))

\* The loop over the groups: one upsertInvoiceWithLines per group; the first
\* one that throws ends the import.
RECURSIVE UpsertGroups(_, _, _)
UpsertGroups(d, groups, imported) ==
    IF groups = <<>> THEN [ok |-> TRUE, db |-> d, imported |-> imported]
    ELSE With(Head(groups), LAMBDA group :
         With(upsertInvoiceWithLines(d, "HaloPSA", HaloInvoice(group[1]),
                                     [i \in 1..Len(group) |-> HaloLine(group[i])]), LAMBDA u :
             IF ~u.ok THEN [ok |-> FALSE, db |-> u.db, imported |-> imported]
             ELSE UpsertGroups(u.db, Tail(groups), imported + 1)))

importHaloInvoices(d, file) ==
    With(createImportMetadata(d, "HaloPSA", "halo_invoices", file), LAMBDA meta :
    With(addImportRecords(meta.db, meta.id,
             ImportRecords(file.rows, <<"InvoiceID", "Invoice ID", "ID">>)), LAMBDA recorded :
    With(UpsertGroups(recorded, HaloGroups(file.rows), 0), LAMBDA u :
        IF ~u.ok THEN Thrown(u.db, "upsertInvoiceWithLines failed")
        ELSE Returned(u.db, [detectedType |-> "halo_invoices", imported |-> u.imported,
                             import_meta_id |-> meta.id]))))

----------------------------------------------------------------------------
(* Bank transactions *)

\* t.raw || {} as the jsonb parameter of the ledger insert: the JSON text of
\* an object, or the string the caller gave.
RawOf(t) == IF "raw" \in DOMAIN t /\ t.raw # <<>> THEN t.raw ELSE <<"{", "}">>

\* The texts the jsonb column raw of ledger_transactions accepts, among the
\* texts of the model: an empty object and a number.
JsonbAccepts(text) ==
    \/ text = <<"{", "}">>
    \/ text # <<>> /\ \A i \in 1..Len(text) : IsDigit(text[i])

\* The loop of insertBankTransactions over txns: the bank row (skipped on a
\* (source_id, external_id) that a row already has), its ledger projection
\* and, when both were inserted, the link between them.  A statement that
\* fails ends the loop: nothing catches the error before the ROLLBACK.
RECURSIVE InsertBankRows(_, _, _)
InsertBankRows(d, sourceId, txns) ==
    IF txns = <<>> THEN [ok |-> TRUE, db |-> d]
    ELSE LET t == Head(txns)
             externalId == TextOrNull(t.external_id)
             skipped == SourceKeyConflicts(d, "bank_transactions", sourceId, externalId) # {}
             bankId == IF skipped THEN NullId ELSE Len(d.bank_transactions) + 1
             d1 == IF skipped THEN d
                   ELSE Insert(d, "bank_transactions",
                               [source_id |-> sourceId, external_id |-> externalId,
                                txn_date |-> t.txn_date,
                                amount |-> RoundHalfAway(t.amount, 10),
                                description |-> TextOrNull(t.description),
                                memo |-> TextOrNull(t.memo),
                                checksum |-> t.checksum])
             lt == InsertLedger(d1, [source_id |-> sourceId, external_id |-> externalId,
                                     txn_type |-> "bank_txn",
                                     amount |-> RoundHalfAway(t.amount, 10)])
             d2 == IF bankId # NullId /\ lt.id # NullId
                   THEN Insert(lt.db, "ledger_links",
                               [ledger_transaction_id |-> lt.id, entity_type |-> "bank_txn",
                                entity_id |-> bankId])
                   ELSE lt.db
         IN  IF ~JsonbAccepts(RawOf(t)) THEN [ok |-> FALSE, db |-> d1]
             ELSE InsertBankRows(d2, sourceId, Tail(txns))

\* insertBankTransactions: the source on a pooled connection, then the loop
\* between BEGIN and COMMIT; an error rolls the loop's writes back and is
\* thrown again.
insertBankTransactions(d, sourceName, txns) ==
    With(getOrCreateSource(d, sourceName), LAMBDA s :
    With(InsertBankRows(s.db, s.id, txns), LAMBDA rows :
        IF rows.ok THEN [ok |-> TRUE, db |-> rows.db, count |-> Len(txns)]
        ELSE [ok |-> FALSE, db |-> s.db, count |-> 0]))

\* parseNumber of importBankFile, in thousandths: 0 for null and for NaN.
parseNumber(v) == NumberOrZero(v)

\* String(n) for a number n >= 0 given in thousandths.
RECURSIVE DigitsOf(_)
DigitsOf(n) == IF n < 10 THEN <<Digits[n + 1]>> ELSE Append(DigitsOf(n \div 10), Digits[(n % 10) + 1])

RECURSIVE DropZeros(_)
DropZeros(s) == IF s # <<>> /\ s[Len(s)] = "0" THEN DropZeros(SubSeq(s, 1, Len(s) - 1)) ELSE s

NumberText(n) ==
    LET frac == DropZeros(<<Digits[((n % 1000) \div 100) + 1],
                            Digits[((n % 100) \div 10) + 1], Digits[(n % 10) + 1]>>)
    IN  DigitsOf(n \div 1000) \o (IF frac = <<>> THEN <<>> ELSE <<".">> \o frac)

Abs(n) == IF n < 0 THEN 0 - n ELSE n

\* A normalizer that drops every row.
SkipRow(r) == <<>>

\* The transactions of one row of a batch file: one for a positive CR
\* amount, one for a positive DR amount.  [bullet] stands for U+2022.
BatchTxns(r) ==
    LET effective == FirstCell(r, <<"Effective Date", "effective date", "Date", "date">>)
        transferDesc == FirstCell(r, <<"Transfer Description", "transfer description">>)
        company == FirstCell(r, <<"Company Name", "company name">>)
        batchType == FirstCell(r, <<"Batch Type", "batch type">>)
        sec == FirstCell(r, <<"SEC Code", "sec code">>)
        itemCount == FirstCell(r, <<"Item Count", "item count">>)
        status == FirstCell(r, <<"Batch Status", "batch status">>)
        ref == FirstCell(r, <<"Reference Number", "reference number">>)
        dr == parseNumber(FirstCell(r, <<"DR Amount", "dr amount">>))
        cr == parseNumber(FirstCell(r, <<"CR Amount", "cr amount">>))
        baseDesc == Trim(transferDesc)
        memoBase == <<"Company: ">> \o company \o <<" | SEC: ">> \o sec \o <<" | Items: ">>
                    \o itemCount \o <<" | Status: ">> \o status \o <<" | Type: ">> \o batchType
        txnDate == IF effective # <<>> THEN effective ELSE <<FormatMdy(Today)>>
        credit == [external_id |-> IF ref # <<>> THEN ref \o <<"-CR">> ELSE <<>>,
                   txn_date |-> txnDate, amount |-> cr,
                   description |-> baseDesc \o <<" [bullet] CR">>, memo |-> memoBase,
                   checksum |-> hashRow([effective |-> effective, baseDesc |-> baseDesc,
                                         cr |-> cr, type |-> "CR", ref |-> ref])]
        debit == [external_id |-> IF ref # <<>> THEN ref \o <<"-DR">> ELSE <<>>,
                  txn_date |-> txnDate, amount |-> 0 - Abs(dr),
                  description |-> baseDesc \o <<" [bullet] DR">>, memo |-> memoBase,
                  checksum |-> hashRow([effective |-> effective, baseDesc |-> baseDesc,
                                        dr |-> dr, type |-> "DR", ref |-> ref])]
    IN  (IF cr > 0 THEN <<credit>> ELSE <<>>) \o (IF dr > 0 THEN <<debit>> ELSE <<>>)

\* The transaction of one row of a generic bank file; none when the amount
\* parses to 0.
GenericTxns(r) ==
    LET date == FirstCell(r, <<"Date", "Transaction Date", "Posting Date", "TxnDate">>)
        desc == FirstCell(r, <<"Description", "Memo", "Details">>)
        memo == FirstCell(r, <<"Memo", "Notes">>)
        amount == IF FirstCell(r, <<"Amount", "Credit">>) # <<>>
                  THEN FirstCell(r, <<"Amount", "Credit">>)
                  ELSE IF Cell(r, "Debit") # <<>>
                  THEN <<"-">> \o NumberText(Abs(parseNumber(Cell(r, "Debit"))))
                  ELSE Cell(r, "amount")
        balance == FirstCell(r, <<"Balance", "Running Balance">>)
        parsedAmt == parseNumber(amount)
    IN  IF parsedAmt = 0 THEN <<>>
        ELSE <<[external_id |-> FirstCell(r, <<"Transaction ID", "ID">>),
                txn_date |-> IF date # <<>> THEN date ELSE <<FormatMdy(Today)>>,
                amount |-> parsedAmt,
                description |-> Trim(desc), memo |-> Trim(memo),
                checksum |-> hashRow([date |-> date, desc |-> desc, memo |-> memo,
                                      amount |-> amount, balance |-> balance])]>>

RECURSIVE FlatMap(_, _)
FlatMap(Op(_), rows) ==
    IF rows = <<>> THEN <<>> ELSE Op(Head(rows)) \o FlatMap(Op, Tail(rows))

BankTxns(rows, detectedType) ==
    IF detectedType = "bank_batch" THEN FlatMap(BatchTxns, rows) ELSE FlatMap(GenericTxns, rows)

importBankFile(d, file, detectedType) ==
    LET sourceName == IF detectedType = "bank_batch" THEN "FNBPA" ELSE "BankCSV"
        meta == createImportMetadata(d, sourceName, detectedType, file)
        recorded == addImportRecords(meta.db, meta.id,
                        ImportRecords(file.rows, <<"Reference Number", "reference number",
                                                   "Transaction ID", "ID">>))
        result == insertBankTransactions(recorded, sourceName,
                                         BankTxns(file.rows, detectedType))
    IN  IF ~result.ok THEN Thrown(result.db, "insertBankTransactions failed")
        ELSE Returned(result.db, [detectedType |-> detectedType, imported |-> result.count,
                                  import_meta_id |-> meta.id])

----------------------------------------------------------------------------
(* importFile *)

\* The headers as the file spells them.
RawHeaders(file) ==
    IF file.rows = <<>> THEN {} ELSE {file.keys[i] : i \in 1..Len(file.keys)}

getHeadersLower(file) ==
    IF file.rows = <<>> THEN {} ELSE {HeaderKey(file.keys[i]) : i \in 1..Len(file.keys)}

\* fname.includes('invoice'), over the file names of the model.
NameHasInvoice(filename) == filename \in {"invoices.csv", "Invoice export.csv"}

detectCsvType(file) ==
    LET h == getHeadersLower(file)
        has(name) == name \in h
        any(names) == names \cap h # {}
        all(names) == names \subseteq h
    IN  IF has("po_id") THEN "po_bills"
        ELSE IF all({"batch number", "transfer description", "effective date"})
                /\ any({"dr amount", "cr amount"})
        THEN "bank_batch"
        ELSE IF \/ any({"invoice number", "invoice no", "invoice #", "inv", "invoice",
                        "document number"})
                \/ any({"invoiceid", "invoice id", "id"})
                \/ (/\ any({"customer", "customer name", "account name", "client",
                            "client name"})
                    /\ any({"invoice date", "date", "invoicedate"})
                    /\ any({"total", "amount due", "balance", "subtotal"}))
                \/ NameHasInvoice(file.filename)
        THEN "halo_invoices"
        ELSE IF any({"balance transaction id", "type"}) /\ any({"amount", "net"})
        THEN "stripe_csv"
        ELSE IF /\ any({"vendor", "supplier", "vendor name"})
                /\ any({"refnumber", "ref number", "reference", "reference number", "docnum",
                        "document number"})
                /\ any({"item", "item code", "sku", "product", "product code", "description"})
                /\ any({"qty", "quantity", "qnty"})
                /\ any({"cost", "unit cost", "price", "unit price", "rate"})
        THEN "po_bills"
        ELSE IF /\ any({"date", "posting date", "transaction date"})
                /\ any({"amount", "credit", "debit"})
                /\ any({"description", "memo", "details"})
        THEN "bank_generic"
        ELSE "unknown"

\* The bytes of a file, as far as they matter: its header row and its rows.
Content(file) == [keys |-> file.keys, rows |-> file.rows]

\* md5 of the content, taken to be free of collisions.
generateChecksum(content) == <<"md5", content>>

\* A store that reports every earlier import as not processed.
StoreWithoutFlag(d, filename, csvContent) ==
    LET existing == Ids(d, "csv_imports",
                        LAMBDA r : r.checksum = generateChecksum(csvContent))
    IN  IF existing # {}
        THEN [db |-> d, id |-> MinOf(existing), isDuplicate |-> TRUE,
              alreadyProcessed |-> FALSE]
        ELSE [db |-> Insert(d, "csv_imports",
                            [filename |-> filename, checksum |-> generateChecksum(csvContent),
                             processed |-> FALSE]),
              id |-> Len(d.csv_imports) + 1, isDuplicate |-> FALSE,
              alreadyProcessed |-> FALSE]

storeCsvImport(d, filename, csvContent) ==
    LET checksum == generateChecksum(csvContent)
        existing == Ids(d, "csv_imports", LAMBDA r : r.checksum = checksum)
    IN  IF existing # {}
        THEN [db |-> d, id |-> MinOf(existing), isDuplicate |-> TRUE,
              alreadyProcessed |-> d.csv_imports[MinOf(existing)].processed]
        ELSE [db |-> Insert(d, "csv_imports", [filename |-> filename, checksum |-> checksum,
                                               processed |-> FALSE]),
              id |-> Len(d.csv_imports) + 1, isDuplicate |-> FALSE,
              alreadyProcessed |-> FALSE]

\* An importer that validates the file before it writes anything.
ValidateFirst(d, file) ==
    With(parseBillsFromCsv(Content(file), Today), LAMBDA parsed :
        [ok |-> parsed.ok, db |-> d,
         result |-> [error |-> parsed.error, missing |-> parsed.missing,
                     isDuplicate |-> FALSE, importId |-> 1, bills |-> <<>>,
                     detectedType |-> "po_bills"]])

importPoBills(d, file) ==
    With(createImportMetadata(d, "LocalCSV", "po_bills", file), LAMBDA meta :
    With(addImportRecords(meta.db, meta.id,
             ImportRecords(file.rows, <<"RefNumber", "Ref Number">>)), LAMBDA recorded :
    With(storeCsvImport(recorded, file.filename, Content(file)), LAMBDA importResult :
        IF importResult.isDuplicate
        THEN Returned(importResult.db,
                      [error |-> IF importResult.alreadyProcessed
                                 THEN "CSV already imported and processed"
                                 ELSE "CSV already imported but not processed",
                       isDuplicate |-> TRUE, importId |-> importResult.id,
                       detectedType |-> "po_bills"])
        ELSE With(parseBillsFromCsv(Content(file), Today), LAMBDA parsed :
            IF ~parsed.ok
            THEN [ok |-> FALSE, db |-> importResult.db,
                  result |-> [error |-> parsed.error, missing |-> parsed.missing]]
            ELSE Returned(importResult.db,
                          [bills |-> parsed.bills, filePath |-> file.filename,
                           importId |-> importResult.id, isDuplicate |-> FALSE,
                           import_meta_id |-> meta.id, detectedType |-> "po_bills"])))))

\* A dispatcher with a fallback: every file goes to the invoice normalizer.
BestEffort(d, file) == importHaloInvoices(d, file)

importFile(d, file) ==
    LET detectedType == detectCsvType(file)
    IN  CASE detectedType = "po_bills" -> importPoBills(d, file)
          [] detectedType = "halo_invoices" -> importHaloInvoices(d, file)
          [] detectedType \in {"bank_batch", "bank_generic"} ->
                importBankFile(d, file, detectedType)
          [] detectedType = "stripe_csv" ->
                Thrown(d, "Stripe CSV not supported yet. Use Stripe backfill API.")
          [] OTHER -> Thrown(d, "Unknown CSV structure")

----------------------------------------------------------------------------
(* processCsvImport *)

\* A transaction is known by the number of the caller that runs it.  A row
\* inserted in a transaction carries that number as xid until COMMIT makes
\* it 0; ROLLBACK leaves the row dead (its id is spent).  A row updated in a
\* transaction is written in place and the row it replaces is kept in the
\* caller's undo list: the caller holds the lock of the row, and the other
\* callers read the replaced row (READ COMMITTED) until COMMIT or ROLLBACK.
Committed == 0
Dead == 0 - 1

\* The position of a call of processCsvImport: where it is (pc), the bill b
\* and line i it is at, and what it has read.
NewCall(importId, bills) ==
    [pc |-> "begin", importId |-> importId, bills |-> bills, b |-> 1, i |-> 1,
     transactionId |-> NullId, rowId |-> NullId,
     seen |-> [current_quantity |-> 0, total_received |-> 0, total_cost |-> 0],
     undo |-> <<>>]

\* The first line of the bill, whatever line the call is at.
FirstLine(l) == l.bills[l.b].lines[1]

BillOf(l) == l.bills[l.b]
LineOf(l) == l.bills[l.b].lines[l.i]

\* The callers other than p whose undo lists hold row id of table.
Holders(procs, p, table, id) ==
    {q \in DOMAIN procs \ {p} :
        \E k \in 1..Len(procs[q].undo) :
            procs[q].undo[k].table = table /\ procs[q].undo[k].id = id}

\* The row as the committed state has it: the row the first update of the
\* holding transaction replaced.
CommittedRow(d, procs, p, table, id) ==
    IF Holders(procs, p, table, id) = {} THEN d[table][id]
    ELSE LET q == CHOOSE q \in Holders(procs, p, table, id) : TRUE
             k == MinOf({k \in 1..Len(procs[q].undo) :
                            procs[q].undo[k].table = table /\ procs[q].undo[k].id = id})
         IN  procs[q].undo[k].row

\* SELECT * FROM inventory WHERE item_name = $1, as caller p sees it.
InventoryIds(d, p, item) ==
    Ids(d, "inventory", LAMBDA r : r.item_name = item /\ r.xid \in {Committed, p})

\* The callers whose uncommitted work the next statement of p waits for.
BlockedBy(d, procs, p) ==
    LET l == procs[p]
    IN  CASE l.pc = "update" -> Holders(procs, p, "inventory", l.rowId)
          [] l.pc = "insert" ->
                {q \in DOMAIN procs \ {p} :
                    Ids(d, "inventory",
                        LAMBDA r : r.item_name = LineOf(l).item /\ r.xid = q) # {}}
          [] l.pc = "mark" -> Holders(procs, p, "csv_imports", l.importId)
          [] OTHER -> {}

\* Where the call goes after the statements of a line.
AfterLine(l) ==
    IF l.i < Len(BillOf(l).lines) THEN [l EXCEPT !.pc = "line", !.i = l.i + 1]
    ELSE IF l.b < Len(l.bills) THEN [l EXCEPT !.pc = "bill", !.b = l.b + 1, !.i = 1]
    ELSE [l EXCEPT !.pc = "mark"]

\* newTotalCost / newQuantity as NUMERIC(12,4) stores it, in ten-thousandths.
AverageCost(totalCents, quantity) ==
    IF quantity = 0 THEN 0 ELSE RoundHalfAway(totalCents * 100000, quantity)

\* The statement the call of caller p is at, run on store d: the store and
\* the position it leaves.
Statement(d, procs, p) ==
    LET l == procs[p]
        to(d1, l1) == [db |-> d1, l |-> l1]
    IN  CASE l.pc = "begin" ->
                to(d, [l EXCEPT !.pc = IF l.bills = <<>> THEN "mark" ELSE "bill"])
          [] l.pc = "bill" ->
                to(Insert(d, "transactions",
                          [xid |-> p, csv_import_id |-> l.importId,
                           vendor |-> BillOf(l).vendor, ref_number |-> BillOf(l).ref_num,
                           transaction_date |-> BillOf(l).date,
                           total_amount |-> BillOf(l).total_amount,
                           payment_terms |-> BillOf(l).terms,
                           due_date |-> BillOf(l).due_date]),
                   IF BillOf(l).lines = <<>>
                   THEN AfterLine([l EXCEPT !.transactionId = Len(d.transactions) + 1])
                   ELSE [l EXCEPT !.pc = "line", !.transactionId = Len(d.transactions) + 1])
          [] l.pc = "line" ->
                IF LineOf(l).item = NullText
                THEN to(d, [l EXCEPT !.pc = "rollback"])
                ELSE to(Insert(d, "line_items",
                               [xid |-> p, transaction_id |-> l.transactionId,
                                item_name |-> LineOf(l).item,
                                description |-> LineOf(l).description,
                                quantity |-> LineOf(l).quantity,
                                unit_cost |-> LineOf(l).unit_cost * 100,
                                line_amount |-> LineOf(l).line_amount]),
                        [l EXCEPT !.pc = "select"])
          [] l.pc = "select" ->
                LET ids == InventoryIds(d, p, LineOf(l).item)
                    row == CommittedRow(d, procs, p, "inventory", MinOf(ids))
                IN  IF ids = {} THEN to(d, [l EXCEPT !.pc = "insert", !.rowId = NullId])
                    ELSE to(d, [l EXCEPT !.pc = "update", !.rowId = MinOf(ids),
                                         !.seen = [current_quantity |-> row.current_quantity,
                                                   total_received |-> row.total_received,
                                                   total_cost |-> row.total_cost]])
          [] l.pc = "update" ->
                LET newQuantity == l.seen.current_quantity + LineOf(l).quantity
                    newTotalCost == l.seen.total_cost + LineOf(l).line_amount
                IN  to([d EXCEPT !.inventory[l.rowId] =
                            [@ EXCEPT !.current_quantity = newQuantity,
                                      !.total_received = l.seen.total_received
                                                         + LineOf(l).quantity,
                                      !.total_cost = newTotalCost,
                                      !.average_unit_cost =
                                          AverageCost(newTotalCost, newQuantity)]],
                       [l EXCEPT !.pc = "receipt",
                                 !.undo = Append(@, [table |-> "inventory", id |-> l.rowId,
                                                     row |-> d.inventory[l.rowId]])])
          [] l.pc = "insert" ->
                IF Ids(d, "inventory", LAMBDA r : r.item_name = LineOf(l).item
                                                 /\ r.xid \in {Committed, p}) # {}
                THEN to(d, [l EXCEPT !.pc = "rollback"])
                ELSE to(Insert(d, "inventory",
                               [xid |-> p, item_name |-> LineOf(l).item,
                                description |-> LineOf(l).description,
                                current_quantity |-> LineOf(l).quantity,
                                total_received |-> LineOf(l).quantity,
                                total_cost |-> LineOf(l).line_amount,
                                average_unit_cost |-> LineOf(l).unit_cost * 100]),
                        [l EXCEPT !.pc = "receipt", !.rowId = Len(d.inventory) + 1])
          [] l.pc = "receipt" ->
                to(Insert(d, "inventory_transactions",
                          [xid |-> p, item_id |-> l.rowId, transaction_id |-> l.transactionId,
                           transaction_type |-> "RECEIPT", quantity |-> LineOf(l).quantity,
                           unit_cost |-> LineOf(l).unit_cost * 100,
                           total_cost |-> LineOf(l).line_amount]),
                   AfterLine(l))
          [] l.pc = "mark" ->
                IF l.importId \in 1..Len(d.csv_imports)
                THEN to([d EXCEPT !.csv_imports[l.importId].processed = TRUE],
                        [l EXCEPT !.pc = "commit",
                                  !.undo = Append(@, [table |-> "csv_imports",
                                                      id |-> l.importId,
                                                      row |-> d.csv_imports[l.importId]])])
                ELSE to(d, [l EXCEPT !.pc = "commit"])
          [] OTHER -> to(d, l)

TxnTables == {"transactions", "line_items", "inventory", "inventory_transactions"}

\* COMMIT: the rows caller p inserted become committed rows.
CommitOf(d, p) ==
    [t \in DOMAIN d |->
        IF t \in TxnTables
        THEN [k \in 1..Len(d[t]) |-> IF d[t][k].xid = p THEN [d[t][k] EXCEPT !.xid = Committed]
                                     ELSE d[t][k]]
        ELSE d[t]]

\* COMMIT in the place of ROLLBACK: what the catch would leave if it kept
\* the work of the call.
KeepWork(d, undo, p) == CommitOf(d, p)

\* ROLLBACK: the rows caller p updated are put back, newest update first, and
\* the rows it inserted are dead.
RECURSIVE Restore(_, _)
Restore(d, undo) ==
    IF undo = <<>> THEN d
    ELSE LET u == undo[Len(undo)]
         IN  Restore([d EXCEPT ![u.table][u.id] = u.row], SubSeq(undo, 1, Len(undo) - 1))

RollbackOf(d, undo, p) ==
    LET restored == Restore(d, undo)
    IN  [t \in DOMAIN d |->
            IF t \in TxnTables
            THEN [k \in 1..Len(restored[t]) |->
                    IF restored[t][k].xid = p THEN [restored[t][k] EXCEPT !.xid = Dead]
                    ELSE restored[t][k]]
            ELSE restored[t]]

\* processCsvImport with no other caller at work: its statements one after
\* the other, then COMMIT, or ROLLBACK and the error.
RECURSIVE RunAlone(_, _)
RunAlone(d, l) ==
    IF l.pc = "commit" THEN [ok |-> TRUE, db |-> CommitOf(d, 1)]
    ELSE IF l.pc = "rollback" THEN [ok |-> FALSE, db |-> RollbackOf(d, l.undo, 1)]
    ELSE LET s == Statement(d, <<l>>, 1) IN RunAlone(s.db, s.l)

processCsvImport(d, importId, bills) == RunAlone(d, NewCall(importId, bills))

----------------------------------------------------------------------------
(* Inputs of the normalizers *)

\* Payment terms as cells carry them.
TermsSamples ==
    {<<"N", "e", "t", " ", "3", "0">>,
     <<"n", "e", "t", " ", "1", "5">>,
     <<"N", "E", "T", " ", "7">>,
     <<"N", "e", "t", " ", " ", "3", "0">>,
     <<"N", "e", "t", "\t", "4", "5">>,
     <<"N", "e", "t", "3", "0">>,
     <<"N", "e", "t", " ", "1", "0", "0", "0">>,
     <<"N", "e", "t", " ", "3", "0", " ", "d", "a", "y", "s">>,
     <<"N", "e", "t", " ", "0">>,
     <<"N", "e", "t", " ", "3", "6", "5">>,
     <<"N", "e", "t", " ", "9", "9", "9">>,
     <<"D", "u", "e", " ", "u", "p", "o", "n", " ", "r", "e", "c", "e", "i", "p", "t">>,
     <<"2", "%", " ", "1", "0", " ", "N", "e", "t", " ", "3", "0">>,
     <<>>,
     <<"N", "e", "t">>,
     <<"N", "e", "t", " ", "x">>,
     <<"C", "O", "D">>}

\* Bill dates handed to computeDueDate: the empty string, MM/DD/YYYY texts
\* and a text that is no date.
DueDateSamples ==
    {<<>>, <<"n", "/", "a">>} \cup {<<FormatMdy(date)>> : date \in FileDates}

\* The longest purchase-order file of the model, in rows.
MaxPoRows == 2

PoKeys == <<"Vendor", "RefNumber", "Date", "Item", "Qty", "Cost", "Terms">>

PoRow(vendor, ref, date, item, qty, cost, terms) ==
    [k \in Range(PoKeys) |->
        CASE k = "Vendor" -> vendor
          [] k = "RefNumber" -> ref
          [] k = "Date" -> date
          [] k = "Item" -> item
          [] k = "Qty" -> qty
          [] k = "Cost" -> cost
          [] k = "Terms" -> terms]

PoRows ==
    {PoRow(<<"A">>, <<"R">>, <<"01/05/2024">>, <<"W">>, <<"1", "0">>, <<"2", ".", "5", "0">>, <<>>),
     PoRow(<<"A">>, <<"R">>, <<"1/5/2024">>, <<"G">>, <<"2">>, <<"5", ".", "0", "0">>, <<"N", "e", "t", " ", "3", "0">>),
     PoRow(<<"A">>, <<"R">>, <<"01/06/2024">>, <<"W">>, <<"1">>, <<"0", ".", "1", "2", "5">>, <<>>),
     PoRow(<<>>, <<"R">>, <<"01/05/2024">>, <<"W">>, <<"1">>, <<"1", ".", "0", "0">>, <<>>),
     PoRow(<<"A", "|", "|", "B">>, <<"R">>, <<"01/05/2024">>, <<"W">>, <<"1">>, <<"1", ".", "0", "0">>, <<>>),
     PoRow(<<"A">>, <<"B", "|", "|", "R">>, <<"01/05/2024">>, <<"W">>, <<"3">>, <<"1", ".", "0", "0">>, <<>>),
     PoRow(<<"A", "\"">>, <<"R">>, <<>>, <<"W">>, <<"x">>, <<"$", "1", ".", "5", "0">>, <<>>)}

\* The purchase-order files: every file of 1..MaxPoRows sample rows, a file
\* with a header row only, and a file that lacks the Cost column.
PoContents ==
    {[keys |-> PoKeys, rows |-> rows] : rows \in SeqsOf(PoRows, 0, MaxPoRows)}
    \cup {[keys |-> <<"Vendor", "RefNumber", "Item", "Qty">>,
           rows |-> <<[k \in {"Vendor", "RefNumber", "Item", "Qty"} |-> <<"A">>]>>]}

----------------------------------------------------------------------------
(* Inputs of the importers *)

\* The number of calls in one run of the import API.
MaxCalls == 2

Acme == <<"A", "c", "m", "e">>
Bolt == <<"B", "o", "l", "t">>

HaloKeys ==
    <<"Invoice Number", "InvoiceID", "Customer", "CustomerID", "Item", "Qty", "Unit Price",
      "Total">>

HaloRow(number, id, customer, customerId, item, qty, price, total) ==
    [k \in Range(HaloKeys) |->
        CASE k = "Invoice Number" -> number
          [] k = "InvoiceID" -> id
          [] k = "Customer" -> customer
          [] k = "CustomerID" -> customerId
          [] k = "Item" -> item
          [] k = "Qty" -> qty
          [] k = "Unit Price" -> price
          [] k = "Total" -> total]

\* The rows of a file that has only the columns keys.
Columns(rows, keys) == [i \in 1..Len(rows) |-> [k \in Range(keys) |-> rows[i][k]]]

File(filename, keys, rows) == [filename |-> filename, keys |-> keys, rows |-> rows]

\* An invoice of two lines, and the same invoice with its lines changed.
HaloFile ==
    File("invoices.csv", HaloKeys,
         <<HaloRow(<<"N", "1">>, <<"7", "7">>, Acme, <<"C", "1">>, <<"W">>, <<"2">>,
                   <<"5", ".", "0", "0">>, <<"1", "5", ".", "0", "0">>),
           HaloRow(<<"N", "1">>, <<"7", "7">>, Acme, <<"C", "1">>, <<"G">>, <<"1">>,
                   <<"5", ".", "0", "0">>, <<"1", "5", ".", "0", "0">>)>>)

HaloFileChanged ==
    File("invoices.csv", HaloKeys,
         <<HaloRow(<<"N", "1">>, <<"7", "7">>, Acme, <<"C", "1">>, <<"G">>, <<"3">>,
                   <<"5", ".", "0", "0">>, <<"1", "5", ".", "0", "0">>)>>)

\* An export without the InvoiceID and CustomerID columns.
HaloFileNoIds ==
    LET keys == <<"Invoice Number", "Customer", "Item", "Qty", "Unit Price", "Total">>
    IN  File("invoices.csv", keys,
             Columns(<<HaloRow(<<"N", "2">>, <<>>, Acme, <<>>, <<"W">>, <<"1">>,
                               <<"5", ".", "0", "0">>, <<"5", ".", "0", "0">>)>>, keys))

\* Two invoices, the second without a customer name.
HaloFileNoName ==
    File("invoices.csv", HaloKeys,
         <<HaloRow(<<"N", "3">>, <<"7", "8">>, Bolt, <<"C", "2">>, <<"W">>, <<"1">>,
                   <<"5", ".", "0", "0">>, <<"5", ".", "0", "0">>),
           HaloRow(<<"N", "4">>, <<"7", "9">>, <<>>, <<>>, <<"W">>, <<"1">>,
                   <<"5", ".", "0", "0">>, <<"5", ".", "0", "0">>)>>)

PoFile ==
    File("po.csv", PoKeys,
         <<PoRow(<<"A">>, <<"R">>, <<"01/05/2024">>, <<"W">>, <<"1", "0">>,
                 <<"2", ".", "5", "0">>, <<>>),
           PoRow(<<"A">>, <<"R">>, <<"01/05/2024">>, <<"G">>, <<"2">>,
                 <<"5", ".", "0", "0">>, <<"N", "e", "t", " ", "3", "0">>)>>)

BatchKeys ==
    <<"Batch Number", "Transfer Description", "Effective Date", "Reference Number",
      "DR Amount", "CR Amount">>

BatchRow(number, desc, date, ref, dr, cr) ==
    [k \in Range(BatchKeys) |->
        CASE k = "Batch Number" -> number
          [] k = "Transfer Description" -> desc
          [] k = "Effective Date" -> date
          [] k = "Reference Number" -> ref
          [] k = "DR Amount" -> dr
          [] k = "CR Amount" -> cr]

\* A batch file: a credit with a reference number, a debit without one.
BatchFile ==
    File("batches.csv", BatchKeys,
         <<BatchRow(<<"1">>, <<"P", "a", "y">>, <<"01/05/2024">>, <<"R", "1">>, <<>>,
                    <<"1", "0", "0", ".", "0", "0">>),
           BatchRow(<<"2">>, <<"F", "e", "e">>, <<"01/05/2024">>, <<>>,
                    <<"5", ".", "0", "0">>, <<>>)>>)

\* A bank export without a transaction id column.
GenericFile ==
    File("bank.csv", <<"Date", "Description", "Amount">>,
         <<[Date |-> <<"01/05/2024">>, Description |-> <<"T", "e", "a">>,
            Amount |-> <<"-", "4", ".", "5", "0">>]>>)

StripeFile ==
    File("payouts.csv", <<"Type", "Amount">>,
         <<[Type |-> <<"c", "h", "a", "r", "g", "e">>, Amount |-> <<"1", "0">>]>>)

UnknownFile == File("notes.csv", <<"Description">>, <<[Description |-> <<"x">>]>>)

Files ==
    {HaloFile, HaloFileChanged, HaloFileNoIds, HaloFileNoName, PoFile,
     BatchFile, GenericFile, StripeFile, UnknownFile}

\* Invoices and line lists handed to upsertInvoiceWithLines directly.
Num(thousandths) == [nan |-> FALSE, val |-> thousandths]

InvoiceSamples ==
    {[external_id |-> <<"7", "7">>, number |-> <<"N", "1">>, total |-> Num(15000),
      customer |-> [external_id |-> <<"C", "1">>, name |-> Acme]],
     [external_id |-> <<>>, number |-> <<"N", "2">>, total |-> Num(5000),
      customer |-> [external_id |-> <<>>, name |-> Acme]]}

Line(item, description, qty, price, total) ==
    [item_code |-> item, description |-> description, quantity |-> Num(qty),
     unit_price |-> Num(price), line_total |-> Num(total)]

LineLists ==
    {<<Line(<<"W">>, <<"w">>, 2000, 5000, 10000), Line(<<"G">>, <<"g">>, 1000, 5000, 5000)>>,
     <<Line(<<"G">>, <<"g">>, 3000, 5000, 15000)>>,
     <<Line(<<>>, <<>>, 0, 5000, 0)>>,
     <<>>}

\* Transaction lists handed to insertBankTransactions directly.
BankTxn(externalId, desc, amount) ==
    [external_id |-> externalId, txn_date |-> <<"01/05/2024">>, amount |-> amount,
     description |-> desc, memo |-> <<>>,
     checksum |-> hashRow([date |-> <<"01/05/2024">>, desc |-> desc, amount |-> amount])]

TxnLists ==
    {<<BankTxn(<<>>, <<"T", "e", "a">>, 0 - 4500)>>,
     <<BankTxn(<<"T", "1">>, <<"T", "e", "a">>, 0 - 4500)>>,
     <<BankTxn(<<>>, <<"T", "e", "a">>, 0 - 4500), BankTxn(<<>>, <<"P", "a", "y">>, 100000)>>}

----------------------------------------------------------------------------
(* The import API as a state machine: calls are made one after the other. *)

Init ==
    /\ db = EmptyDb
    /\ before = EmptyDb
    /\ call = [op |-> "none", arg |-> <<>>, ok |-> TRUE, result |-> <<>>]
    /\ log = <<>>
    /\ proc = <<>>

\* One call: the store moves to what the call leaves, the call is recorded.
Called(op, arg, r, result) ==
    LET c == [op |-> op, arg |-> arg, ok |-> r.ok, result |-> result]
    IN  /\ before' = db
        /\ db' = r.db
        /\ call' = c
        /\ log' = Append(log, c)
        /\ UNCHANGED proc

ImportFile ==
    /\ Len(log) < MaxCalls
    /\ \E file \in Files :
          \E r \in {importFile(db, file)} : Called("importFile", file, r, r.result)

UpsertInvoiceWithLines ==
    /\ Len(log) < MaxCalls
    /\ \E invoice \in InvoiceSamples, lines \in LineLists :
          \E r \in {upsertInvoiceWithLines(db, "HaloPSA", invoice, lines)} :
              Called("upsertInvoiceWithLines", [invoice |-> invoice, lines |-> lines], r,
                     [id |-> r.id])

InsertBankTransactions ==
    /\ Len(log) < MaxCalls
    /\ \E txns \in TxnLists :
          \E r \in {insertBankTransactions(db, "BankCSV", txns)} :
              Called("insertBankTransactions", txns, r, [count |-> r.count])

Next == ImportFile \/ UpsertInvoiceWithLines \/ InsertBankTransactions

Spec == Init /\ [][Next]_vars

\* The same call, with the same argument, was made before and succeeded.
MadeBefore ==
    \E i \in 1..(Len(log) - 1) : log[i].op = call.op /\ log[i].ok /\ log[i].arg = call.arg

----------------------------------------------------------------------------
(* Two callers of getOrCreateClient (or getOrCreateTenant) at once.  Every
   statement is sent on a pooled connection outside a transaction, so each
   one takes effect by itself and the statements of the two callers
   interleave freely. *)

Callers == {1, 2}

\* The store with the ledger source of the entity already there.
DbWithSource == getOrCreateSource(EmptyDb, "HaloPSA").db

InitEntity ==
    /\ \E d \in {EmptyDb, DbWithSource} : db = d /\ before = d
    /\ \E table \in {"clients", "msp_tenants"}, externalId \in {NullText, <<"C", "1">>},
          name \in {Acme} :
            call = [op |-> IF table = "clients" THEN "getOrCreateClient"
                           ELSE "getOrCreateTenant",
                    table |-> table, external_id |-> externalId, name |-> name]
    /\ log = <<>>
    /\ proc = [p \in Callers |-> [pc |-> "source", sourceId |-> NullId, id |-> NullId,
                                  uuid |-> NullId]]

\* The query that follows getOrCreateSource.
AfterSource == IF call.external_id # NullText THEN "byExt" ELSE "byName"

\* getOrCreateSource: SELECT id FROM ledger_sources WHERE name = $1
SelectSource(p) ==
    /\ proc[p].pc = "source"
    /\ proc' = [proc EXCEPT ![p] =
                  IF SourceIds(db, "HaloPSA") # {}
                  THEN [@ EXCEPT !.pc = AfterSource,
                                 !.sourceId = MinOf(SourceIds(db, "HaloPSA"))]
                  ELSE [@ EXCEPT !.pc = "insertSource"]]
    /\ UNCHANGED <<db, before, call, log>>

\* getOrCreateSource: INSERT INTO ledger_sources; name is UNIQUE.
InsertSource(p) ==
    /\ proc[p].pc = "insertSource"
    /\ IF SourceIds(db, "HaloPSA") # {}
       THEN /\ proc' = [proc EXCEPT ![p].pc = "failed"]
            /\ UNCHANGED db
       ELSE /\ db' = getOrCreateSource(db, "HaloPSA").db
            /\ proc' = [proc EXCEPT ![p].pc = AfterSource,
                                    ![p].sourceId = Len(db.ledger_sources) + 1]
    /\ UNCHANGED <<before, call, log>>

Return(p, found) ==
    proc' = [proc EXCEPT ![p].pc = IF found.ok THEN "done" ELSE "failed",
                         ![p].id = found.id, ![p].uuid = found.uuid]

\* SELECT ... WHERE source_id = $1 AND external_id = $2
SelectByExt(p) ==
    /\ proc[p].pc = "byExt"
    /\ LET byExt == EntityByExt(db, call.table, proc[p].sourceId, call.external_id)
       IN  IF byExt # {} THEN Return(p, Found(db, call.table, MinOf(byExt)))
           ELSE proc' = [proc EXCEPT ![p].pc = "byName"]
    /\ UNCHANGED <<db, before, call, log>>

\* SELECT ... WHERE LOWER(name) = LOWER($1) ORDER BY id DESC LIMIT 1
SelectByName(p) ==
    /\ proc[p].pc = "byName"
    /\ LET byName == EntityByName(db, call.table, call.name)
       IN  IF byName # {} THEN Return(p, Found(db, call.table, MaxOf(byName)))
           ELSE proc' = [proc EXCEPT ![p].pc = "insert"]
    /\ UNCHANGED <<db, before, call, log>>

\* randomUUID() and INSERT ... RETURNING id, uuid
InsertRow(p) ==
    /\ proc[p].pc = "insert"
    /\ LET ins == EntityInsert(db, call.table, proc[p].sourceId, call.external_id, call.name)
       IN  /\ db' = ins.db
           /\ Return(p, ins)
    /\ UNCHANGED <<before, call, log>>

NextEntity ==
    \E p \in Callers :
        SelectSource(p) \/ InsertSource(p) \/ SelectByExt(p) \/ SelectByName(p) \/ InsertRow(p)

SpecEntity == InitEntity /\ [][NextEntity]_vars

----------------------------------------------------------------------------
(* Two callers of processCsvImport at once, each in a transaction of its own
   on its own connection; one statement of one caller is one step. *)

PoFileOf(filename, rows) == File(filename, PoKeys, rows)

\* Purchase orders: one item received twice, a single line, two items, a
\* line whose quantity cell is not a number, two items in the other order.
InventoryFiles ==
    {PoFileOf("twice.csv",
              <<PoRow(<<"A">>, <<"R">>, <<"01/05/2024">>, <<"W">>, <<"1", "0">>,
                      <<"2", ".", "5", "0">>, <<>>),
                PoRow(<<"A">>, <<"R">>, <<"01/05/2024">>, <<"W">>, <<"1", "0">>,
                      <<"3", ".", "5", "0">>, <<>>)>>),
     PoFileOf("single.csv",
              <<PoRow(<<"B">>, <<"S">>, <<"01/05/2024">>, <<"W">>, <<"4">>,
                      <<"3", ".", "0", "0">>, <<>>)>>),
     PoFileOf("two.csv",
              <<PoRow(<<"A">>, <<"T">>, <<"01/06/2024">>, <<"G">>, <<"1">>,
                      <<"1", ".", "0", "0">>, <<>>),
                PoRow(<<"A">>, <<"T">>, <<"01/06/2024">>, <<"W">>, <<"1">>,
                      <<"1", ".", "0", "0">>, <<>>)>>),
     PoFileOf("blank.csv",
              <<PoRow(<<"A">>, <<"U">>, <<"01/05/2024">>, <<"W">>, <<"x">>,
                      <<"5", ".", "0", "0">>, <<>>)>>),
     PoFileOf("owt.csv",
              <<PoRow(<<"A">>, <<"V">>, <<"01/06/2024">>, <<"W">>, <<"2">>,
                      <<"5", ".", "0", "0">>, <<>>),
                PoRow(<<"A">>, <<"V">>, <<"01/06/2024">>, <<"G">>, <<"1">>,
                      <<"1", ".", "0", "0">>, <<>>)>>)}

\* A stock the store may hold from an earlier, committed import.
PriorFile ==
    PoFileOf("prior.csv",
             <<PoRow(<<"B">>, <<"P">>, <<"12/31/2023">>, <<"W">>, <<"4">>,
                     <<"3", ".", "0", "0">>, <<>>)>>)

BillsOf(file) == parseBillsFromCsv(Content(file), Today).bills

\* Bills as the process-import request carries them: the bills importFile
\* returned for the file, or bills with an item name missing.
WithoutItem(bills) ==
    [b \in 1..Len(bills) |->
        [bills[b] EXCEPT !.lines = [i \in 1..Len(@) |-> [@[i] EXCEPT !.item = NullText]]]]

Requests ==
    {[file |-> f, bills |-> BillsOf(f)] : f \in InventoryFiles}
    \cup {[file |-> f, bills |-> WithoutItem(BillsOf(f))] :
            f \in {g \in InventoryFiles : g.filename = "single.csv"}}

DbWithStock ==
    processCsvImport(storeCsvImport(EmptyDb, PriorFile.filename, Content(PriorFile)).db, 1,
                     BillsOf(PriorFile)).db

InitInventory ==
    \E d \in {EmptyDb, DbWithStock}, r1 \in Requests, r2 \in Requests :
        LET s1 == storeCsvImport(d, r1.file.filename, Content(r1.file))
            s2 == storeCsvImport(s1.db, r2.file.filename, Content(r2.file))
        IN  /\ db = s2.db
            /\ before = s2.db
            /\ call = [op |-> "processCsvImport", requests |-> <<r1, r2>>]
            /\ log = <<>>
            /\ proc = <<NewCall(s1.id, r1.bills), NewCall(s2.id, r2.bills)>>

\* One statement of caller p, when nothing it waits for is held by another.
Run(p) ==
    /\ BlockedBy(db, proc, p) = {}
    /\ db' = Statement(db, proc, p).db
    /\ proc' = [proc EXCEPT ![p] = Statement(db, proc, p).l]
    /\ UNCHANGED <<before, call, log>>

\* BEGIN
Begin(p) == proc[p].pc = "begin" /\ Run(p)

\* INSERT INTO transactions ... RETURNING id
InsertTransaction(p) == proc[p].pc = "bill" /\ Run(p)

\* INSERT INTO line_items
InsertLineItem(p) == proc[p].pc = "line" /\ Run(p)

\* SELECT * FROM inventory WHERE item_name = $1
SelectInventory(p) == proc[p].pc = "select" /\ Run(p)

\* UPDATE inventory SET current_quantity = $1, ... WHERE id = $7
UpdateInventory(p) == proc[p].pc = "update" /\ Run(p)

\* INSERT INTO inventory ... RETURNING id
InsertInventory(p) == proc[p].pc = "insert" /\ Run(p)

\* INSERT INTO inventory_transactions
InsertReceipt(p) == proc[p].pc = "receipt" /\ Run(p)

\* UPDATE csv_imports SET processed = TRUE WHERE id = $1
MarkProcessed(p) == proc[p].pc = "mark" /\ Run(p)

Commit(p) ==
    /\ proc[p].pc = "commit"
    /\ db' = CommitOf(db, p)
    /\ proc' = [proc EXCEPT ![p].pc = "done", ![p].undo = <<>>]
    /\ UNCHANGED <<before, call, log>>

Rollback(p) ==
    /\ proc[p].pc = "rollback"
    /\ db' = RollbackOf(db, proc[p].undo, p)
    /\ proc' = [proc EXCEPT ![p].pc = "failed", ![p].undo = <<>>]
    /\ UNCHANGED <<before, call, log>>

\* Two callers that wait for each other: the server ends the wait by
\* failing the statement of one of them (deadlock detected).
DeadlockDetected(p) ==
    /\ \E q \in BlockedBy(db, proc, p) : p \in BlockedBy(db, proc, q)
    /\ proc' = [proc EXCEPT ![p].pc = "rollback"]
    /\ UNCHANGED <<db, before, call, log>>

NextInventory ==
    \E p \in Callers :
        \/ Begin(p) \/ InsertTransaction(p) \/ InsertLineItem(p) \/ SelectInventory(p)
        \/ UpdateInventory(p) \/ InsertInventory(p) \/ InsertReceipt(p) \/ MarkProcessed(p)
        \/ Commit(p) \/ Rollback(p) \/ DeadlockDetected(p)

SpecInventory == InitInventory /\ [][NextInventory]_vars

----------------------------------------------------------------------------
(* The normalizers as state machines: Init draws the arguments of one call,
   the action runs it and records what it returns. *)

InitDue ==
    /\ db = EmptyDb
    /\ before = EmptyDb
    /\ log = <<>>
    /\ proc = <<>>
    /\ \E dateStr \in DueDateSamples, terms \in TermsSamples :
          call = [op |-> "computeDueDate", dateStr |-> dateStr, terms |-> terms,
                  done |-> FALSE, ret |-> <<>>]

ComputeDueDate ==
    /\ call.op = "computeDueDate"
    /\ ~call.done
    /\ call' = [call EXCEPT !.done = TRUE, !.ret = computeDueDate(call.dateStr, call.terms)]
    /\ UNCHANGED <<db, before, log, proc>>

NextDue == ComputeDueDate

SpecDue == InitDue /\ [][NextDue]_vars

InitParse ==
    /\ db = EmptyDb
    /\ before = EmptyDb
    /\ log = <<>>
    /\ proc = <<>>
    /\ \E content \in PoContents :
          call = [op |-> "parseBillsFromCsv", content |-> content,
                  done |-> FALSE, ret |-> Throw("", <<>>)]

ParseBillsFromCsv ==
    /\ call.op = "parseBillsFromCsv"
    /\ ~call.done
    /\ call' = [call EXCEPT !.done = TRUE, !.ret = parseBillsFromCsv(call.content, Today)]
    /\ UNCHANGED <<db, before, log, proc>>

NextParse == ParseBillsFromCsv

SpecParse == InitParse /\ [][NextParse]_vars

----------------------------------------------------------------------------
(* C10: due dates *)

\* The number of the day of a date, counted from 1 March of year 0.
DayNumber(date) ==
    LET y == IF date.m <= 2 THEN date.y - 1 ELSE date.y
        mp == IF date.m <= 2 THEN date.m + 9 ELSE date.m - 3
    IN  365 * y + y \div 4 - y \div 100 + y \div 400 + (153 * mp + 2) \div 5 + date.d - 1

\* The dates a due date can fall on.
DueYears == 2023..2028
CalendarDates ==
    {Mdy(m, d, y) : <<m, d, y>> \in {t \in (1..12) \X (1..31) \X DueYears :
                                        t[2] <= DaysInMonth(t[3], t[1])}}

\* The N of terms that read `Net N`: "net" in any case, white space, then
\* the whole run of digits.
RECURSIVE DigitRun(_, _)
DigitRun(t, i) ==
    IF i <= Len(t) /\ IsDigit(t[i]) THEN <<t[i]>> \o DigitRun(t, i + 1) ELSE <<>>

NetDays(terms) ==
    LET t == toLowerCase(terms)
    IN  IF Len(t) >= 5 /\ SubSeq(t, 1, 3) = <<"n", "e", "t">> /\ IsSpace(t[4])
        THEN DigitRun(t, SkipSpaces(t, 4))
        ELSE <<>>

\* text is the date that lies n days after the date dateStr.
IsDatePlus(text, dateStr, n) ==
    \E due \in CalendarDates :
        /\ text = <<FormatMdy(due)>>
        /\ DayNumber(due) = DayNumber(ParseMdy(dateStr)) + n

\* C10: for terms that match `Net N`, computeDueDate returns the bill date
\* plus N days; for every other terms value it returns the bill date
\* unchanged.
C10_DueDateIsDatePlusNetDays ==
    (call.op = "computeDueDate" /\ call.done) =>
        IF NetDays(call.terms) # <<>> /\ IsDateText(call.dateStr)
        THEN IsDatePlus(call.ret, call.dateStr, DecimalValue(NetDays(call.terms)))
        ELSE call.ret = call.dateStr

----------------------------------------------------------------------------
(* C9: grouping of purchase-order rows into bills *)

RowVendor(row) == sanitize(Cell(row, "Vendor"))
RowRef(row) == sanitize(Cell(row, "RefNumber"))
RowDate(row) == formatDate(Cell(row, "Date"), Today)
RowTriple(row) == <<RowVendor(row), RowRef(row), RowDate(row)>>

\* The rows that have both vendor and reference.
KeyedRows(content) ==
    SelectSeq(content.rows, LAMBDA row : RowVendor(row) # <<>> /\ RowRef(row) # <<>>)

\* bill is the bill of the rows that share the key triple.
IsBillOf(bill, triple, content) ==
    LET rows == SelectSeq(KeyedRows(content), LAMBDA row : RowTriple(row) = triple)
    IN  /\ bill.vendor = triple[1]
        /\ bill.ref_num = triple[2]
        /\ bill.date = triple[3]
        /\ Len(bill.lines) = Len(rows)
        /\ \A i \in 1..Len(rows) :
              /\ bill.lines[i].item = sanitize(Cell(rows[i], "Item"))
              /\ bill.lines[i].quantity = NumberOrZero(Cell(rows[i], "Qty"))
              /\ bill.lines[i].line_amount =
                    RoundMillionthsToCents(NumberOrZero(Cell(rows[i], "Qty"))
                                           * NumberOrZero(Cell(rows[i], "Cost")))
        /\ bill.total_amount = SumSeq([i \in 1..Len(bill.lines) |-> bill.lines[i].line_amount])

\* C9: parseBillsFromCsv produces exactly one bill per distinct (vendor,
\* reference, normalized date) among the rows that have both vendor and
\* reference; the bill carries the key's components, its lines are the rows
\* of the key in file order with line_amount = round(quantity * unit cost, 2),
\* and total_amount is the sum of its line amounts.
C9_OneBillPerKey ==
    (call.op = "parseBillsFromCsv" /\ call.done /\ call.ret.ok) =>
        LET triples == {RowTriple(row) : row \in Range(KeyedRows(call.content))}
            bills == call.ret.bills
        IN  /\ Len(bills) = Cardinality(triples)
            /\ \A triple \in triples :
                  \E i \in 1..Len(bills) : IsBillOf(bills[i], triple, call.content)

----------------------------------------------------------------------------
(* C1, C2, C5: importing a file *)

\* C1: importing the bytes of an accepted file a second time returns a
\* result tagged isDuplicate = true and writes nothing: no table gains or
\* changes a row during the second import.
C1_SecondImportWritesNothing ==
    (call.op = "importFile" /\ MadeBefore) =>
        /\ call.ok
        /\ "isDuplicate" \in DOMAIN call.result
        /\ call.result.isDuplicate
        /\ Tables(db) = Tables(before)

\* C2: importing the same invoice file a second time through
\* importHaloInvoices leaves the invoices and customers tables with the
\* number of rows they had after the first import.
C2_ReimportAddsNoInvoiceOrCustomer ==
    (call.op = "importFile" /\ MadeBefore /\ detectCsvType(call.arg) = "halo_invoices") =>
        /\ Len(db.invoices) = Len(before.invoices)
        /\ Len(db.customers) = Len(before.customers)

\* C5: when upsertInvoiceWithLines fails for an invoice during an
\* importHaloInvoices call, none of the invoices, invoice lines, customers,
\* clients, tenants or ledger transactions written earlier in that call
\* remain stored.
C5_FailedImportLeavesNothing ==
    (call.op = "importFile" /\ detectCsvType(call.arg) = "halo_invoices" /\ ~call.ok) =>
        \A t \in {"invoices", "invoice_lines", "customers", "clients", "msp_tenants",
                  "ledger_transactions"} : db[t] = before[t]

----------------------------------------------------------------------------
(* C3: replacing the lines of an invoice *)

HaloSourceId(d) == MinOf(SourceIds(d, "HaloPSA"))

\* The invoices of d that carry the external id of invoice.
InvoicesOf(d, invoice) ==
    IF SourceIds(d, "HaloPSA") = {} THEN {}
    ELSE SourceKeyConflicts(d, "invoices", HaloSourceId(d), TextOrNull(invoice.external_id))

LinesOf(d, invoiceId) == SelectSeq(d.invoice_lines, LAMBDA r : r.invoice_id = invoiceId)

\* row stores the line ln: an empty text and a zero are stored as NULL.
StoresLine(row, ln) ==
    /\ row.description = (IF ln.description = <<>> THEN NullText ELSE ln.description)
    /\ row.quantity = (IF ln.quantity.val = 0 THEN NullNum ELSE ln.quantity.val)
    /\ row.unit_price = (IF ln.unit_price.val = 0 THEN NullNum ELSE ln.unit_price.val)
    /\ row.line_total = (IF ln.line_total.val = 0 THEN NullNum ELSE ln.line_total.val \div 10)

\* C3: after upsertInvoiceWithLines for a (source, external_id) that already
\* has an invoice, the lines attached to that invoice are exactly the new
\* list, in count and content, and no second invoice row exists for that
\* external_id.
C3_LinesAreTheNewList ==
    (call.op = "upsertInvoiceWithLines" /\ call.ok /\ InvoicesOf(before, call.arg.invoice) # {}) =>
        LET stored == LinesOf(db, call.result.id)
        IN  /\ InvoicesOf(db, call.arg.invoice) = {call.result.id}
            /\ InvoicesOf(before, call.arg.invoice) = {call.result.id}
            /\ Len(stored) = Len(call.arg.lines)
            /\ \A i \in 1..Len(stored) : StoresLine(stored[i], call.arg.lines[i])

\* An invoice that had lines was given a different, non-empty list.
C3_Witness ==
    /\ call.op = "upsertInvoiceWithLines"
    /\ call.ok
    /\ InvoicesOf(before, call.arg.invoice) # {}
    /\ LinesOf(before, call.result.id) # <<>>
    /\ call.arg.lines # <<>>
    /\ LinesOf(before, call.result.id) # LinesOf(db, call.result.id)

----------------------------------------------------------------------------
(* C4: bank transactions without an external id *)

\* C4: calling insertBankTransactions twice with the same transactions that
\* carry no external_id leaves exactly one bank_transactions row per
\* distinct checksum.
C4_OneRowPerChecksum ==
    (/\ call.op = "insertBankTransactions"
     /\ MadeBefore
     /\ \A i \in 1..Len(call.arg) : call.arg[i].external_id = <<>>) =>
        \A i \in 1..Len(call.arg) :
            Cardinality(Ids(db, "bank_transactions",
                            LAMBDA r : r.checksum = call.arg[i].checksum)) = 1

----------------------------------------------------------------------------
(* C6: two callers resolving the same new entity *)

\* C6: when two callers run getOrCreateClient (or getOrCreateTenant) at once
\* for the same entity that does not exist yet, in every interleaving at
\* most one row is created for it and both callers obtain the same id and
\* UUID.
C6_OneRowSameIdentity ==
    (call.op \in {"getOrCreateClient", "getOrCreateTenant"}
     /\ \A p \in Callers : proc[p].pc \in {"done", "failed"}) =>
        /\ Len(db[call.table]) <= 1
        /\ \A p \in Callers : proc[p].pc = "done"
        /\ proc[1].id = proc[2].id
        /\ proc[1].uuid = proc[2].uuid

----------------------------------------------------------------------------
(* C7, C8: inventory *)

\* The lines of the bills, bill after bill, that receive item.
RECURSIVE LinesFor(_, _)
LinesFor(bills, item) ==
    IF bills = <<>> THEN <<>>
    ELSE SelectSeq(Head(bills).lines, LAMBDA ln : ln.item = item) \o LinesFor(Tail(bills), item)

Quantities(lines) == [i \in 1..Len(lines) |-> lines[i].quantity]
Amounts(lines) == [i \in 1..Len(lines) |-> lines[i].line_amount]

\* The committed inventory row of item in d; a row of zeros when there is none.
StockIds(d, item) == Ids(d, "inventory", LAMBDA r : r.item_name = item /\ r.xid = Committed)

Stock(d, item) ==
    IF StockIds(d, item) = {}
    THEN [current_quantity |-> 0, total_received |-> 0, total_cost |-> 0,
          average_unit_cost |-> 0]
    ELSE d.inventory[MinOf(StockIds(d, item))]

\* The items both callers have lines for.
SharedItems ==
    {item \in {<<"W">>, <<"G">>} :
        \A p \in Callers : LinesFor(call.requests[p].bills, item) # <<>>}

\* C7: when two processCsvImport calls with lines for the same item run at
\* once and both commit, the item's current_quantity, total_received and
\* total_cost are the prior values plus the sums over the lines of both
\* imports, in every interleaving.
C7_NoLostUpdate ==
    (call.op = "processCsvImport" /\ \A p \in Callers : proc[p].pc = "done") =>
        \A item \in SharedItems :
            LET lines == LinesFor(call.requests[1].bills, item)
                         \o LinesFor(call.requests[2].bills, item)
            IN  /\ Stock(db, item).current_quantity =
                      Stock(before, item).current_quantity + SumSeq(Quantities(lines))
                /\ Stock(db, item).total_received =
                      Stock(before, item).total_received + SumSeq(Quantities(lines))
                /\ Stock(db, item).total_cost =
                      Stock(before, item).total_cost + SumSeq(Amounts(lines))

\* sum(qi * ci) / sum(qi) to four decimals, in ten-thousandths: quantities
\* in thousandths, unit costs in cents.
WeightedAverage(lines) ==
    LET quantity == SumSeq(Quantities(lines))
        cost == SumSeq([i \in 1..Len(lines) |-> lines[i].quantity * lines[i].unit_cost])
    IN  IF quantity = 0 THEN 0 ELSE RoundHalfAway(cost * 100, quantity)

\* C8: after processCsvImport has applied n >= 1 lines to an item with no
\* prior inventory row, average_unit_cost is total_cost / current_quantity,
\* which is sum(qi * ci) / sum(qi), and is 0 when current_quantity is 0;
\* applying the same lines again to the same store gives the same value.
C8_AverageIsWeightedAverage ==
    (call.op = "processCsvImport" /\ proc[1].pc = "done" /\ proc[2].pc = "begin") =>
        \A item \in {<<"W">>, <<"G">>} :
            LET lines == LinesFor(call.requests[1].bills, item)
                row == Stock(db, item)
                replay == processCsvImport(before, proc[1].importId, call.requests[1].bills).db
            IN  (lines # <<>> /\ StockIds(before, item) = {}) =>
                    /\ row.average_unit_cost = WeightedAverage(lines)
                    /\ row.average_unit_cost =
                          AverageCost(row.total_cost, row.current_quantity)
                    /\ row.current_quantity = 0 => row.average_unit_cost = 0
                    /\ Stock(replay, item).average_unit_cost = row.average_unit_cost

----------------------------------------------------------------------------
(* Batch files of one row, imported into an empty store *)

BatchRefs == {<<>>, <<"R", "1">>}

BatchAmounts ==
    {<<>>, <<"0">>, <<"5", "0">>, <<"3", "0", ".", "0", "0">>, <<"-", "5">>, <<"x">>,
     <<"1", ",", "0", "0", "0", ".", "5">>}

BatchFiles ==
    {File("batches.csv", BatchKeys,
          <<BatchRow(<<"1">>, <<"P", "a", "y">>, <<"01/05/2024">>, ref, dr, cr)>>) :
        ref \in BatchRefs, dr \in BatchAmounts, cr \in BatchAmounts}

InitBatch ==
    /\ db = EmptyDb
    /\ before = EmptyDb
    /\ log = <<>>
    /\ proc = <<>>
    /\ \E file \in BatchFiles :
          call = [op |-> "importFile", arg |-> file, done |-> FALSE, ok |-> TRUE,
                  result |-> <<>>, txns |-> <<>>]

ImportBatchFile ==
    /\ call.op = "importFile"
    /\ ~call.done
    /\ \E r \in {importFile(db, call.arg)} :
          /\ db' = r.db
          /\ call' = [call EXCEPT !.done = TRUE, !.ok = r.ok, !.result = r.result,
                                  !.txns = BankTxns(call.arg.rows, detectCsvType(call.arg))]
    /\ before' = db
    /\ UNCHANGED <<log, proc>>

NextBatch == ImportBatchFile

SpecBatch == InitBatch /\ [][NextBatch]_vars

----------------------------------------------------------------------------
(* C11: the two sides of a batch row *)

\* What the statement asks of the row of the call, given the external ids
\* of the credit and of the debit: one transaction per strictly positive
\* side, +CR and -DR, and as many bank_transactions rows stored.
BatchSidesAre(creditId, debitId) ==
    LET r == call.arg.rows[1]
        cr == parseNumber(Cell(r, "CR Amount"))
        dr == parseNumber(Cell(r, "DR Amount"))
        sides == (IF cr > 0 THEN <<[amount |-> cr, external_id |-> creditId]>> ELSE <<>>)
                 \o (IF dr > 0 THEN <<[amount |-> 0 - dr, external_id |-> debitId]>> ELSE <<>>)
    IN  /\ call.ok
        /\ [i \in 1..Len(call.txns) |->
                [amount |-> call.txns[i].amount, external_id |-> call.txns[i].external_id]]
           = sides
        /\ [i \in 1..Len(db.bank_transactions) |->
                [amount |-> db.bank_transactions[i].amount,
                 external_id |-> db.bank_transactions[i].external_id]]
           = [i \in 1..Len(sides) |->
                [amount |-> RoundHalfAway(sides[i].amount, 10),
                 external_id |-> TextOrNull(sides[i].external_id)]]

BatchRef == Cell(call.arg.rows[1], "Reference Number")

\* C11 as stated: in bank batch mode a row yields one transaction per
\* strictly positive side, CR > 0 with amount +CR and external id
\* '<ref>-CR', DR > 0 with amount -DR and external id '<ref>-DR'; a row with
\* both yields two transactions that do not collide on (source,
\* external_id), a row with neither yields none.
C11_SidesCarryRefSuffix ==
    (call.op = "importFile" /\ call.done) =>
        BatchSidesAre(BatchRef \o <<"-CR">>, BatchRef \o <<"-DR">>)

\* C11, amended: the external ids are '<ref>-CR' and '<ref>-DR' when the row
\* has a reference number, and null when it has none; the rest as stated.
C11_SidesOfBatchRow ==
    (call.op = "importFile" /\ call.done) =>
        BatchSidesAre(IF BatchRef = <<>> THEN <<>> ELSE BatchRef \o <<"-CR">>,
                      IF BatchRef = <<>> THEN <<>> ELSE BatchRef \o <<"-DR">>)

\* A row with a reference number and both sides positive was imported and
\* both of its transactions are stored.
C11_Witness ==
    /\ call.op = "importFile"
    /\ call.done
    /\ BatchRef # <<>>
    /\ Len(call.txns) = 2
    /\ Len(db.bank_transactions) = 2

----------------------------------------------------------------------------
(* Files over a pool of headers, classified *)

MaxHeaders == 5

HeaderPool ==
    <<" PO_ID ", "Batch Number", "Transfer Description", "Effective Date", "CR Amount",
      "InvoiceID", "Customer", "Date", "Total", "Type", "Amount", "VENDOR", "RefNumber",
      "Item", "Qty", "Cost", "Description">>

\* The file of name filename whose header row is the headers of the pool at
\* the positions S, with one data row or none.
PoolFile(filename, S, hasRow) ==
    LET idx == SelectSeq([i \in 1..Len(HeaderPool) |-> i], LAMBDA i : i \in S)
        keys == [j \in 1..Len(idx) |-> HeaderPool[idx[j]]]
    IN  File(filename, keys,
             IF hasRow THEN <<[k \in Range(keys) |-> <<"x">>]>> ELSE <<>>)

InitDetect ==
    /\ db = EmptyDb
    /\ before = EmptyDb
    /\ log = <<>>
    /\ proc = <<>>
    /\ \E S \in {T \in SUBSET (1..Len(HeaderPool)) : Cardinality(T) <= MaxHeaders},
          filename \in {"data.csv", "Invoice export.csv"}, hasRow \in BOOLEAN :
          call = [op |-> "detectCsvType", arg |-> PoolFile(filename, S, hasRow),
                  done |-> FALSE, ret |-> ""]

DetectCsvType ==
    /\ call.op = "detectCsvType"
    /\ ~call.done
    /\ call' = [call EXCEPT !.done = TRUE, !.ret = detectCsvType(call.arg)]
    /\ UNCHANGED <<db, before, log, proc>>

NextDetect == DetectCsvType

SpecDetect == InitDetect /\ [][NextDetect]_vars

----------------------------------------------------------------------------
(* C12: the order of the classification rules *)

\* The headers of the first row, trimmed and in lower case.
HeadersOf(file) ==
    IF file.rows = <<>> THEN {} ELSE {HeaderKey(k) : k \in DOMAIN file.rows[1]}

RuleTags == <<"po_bills", "bank_batch", "halo_invoices", "stripe_csv", "po_bills", "bank_generic">>

\* Rule i of the fixed order matches the headers H and the file name.
RuleMatches(i, H, filename) ==
    LET some(names) == \E n \in names : n \in H
    IN  CASE i = 1 -> "po_id" \in H
          [] i = 2 -> /\ \A n \in {"batch number", "transfer description", "effective date"} :
                            n \in H
                      /\ some({"dr amount", "cr amount"})
          [] i = 3 -> \/ some({"invoice number", "invoice no", "invoice #", "inv", "invoice",
                               "document number", "invoiceid", "invoice id", "id"})
                      \/ /\ some({"customer", "customer name", "account name", "client",
                                  "client name"})
                         /\ some({"invoice date", "date", "invoicedate"})
                         /\ some({"total", "amount due", "balance", "subtotal"})
                      \/ filename \in {"invoices.csv", "Invoice export.csv"}
          [] i = 4 -> some({"balance transaction id", "type"}) /\ some({"amount", "net"})
          [] i = 5 -> /\ some({"vendor", "supplier", "vendor name"})
                      /\ some({"refnumber", "ref number", "reference", "reference number",
                               "docnum", "document number"})
                      /\ some({"item", "item code", "sku", "product", "product code",
                               "description"})
                      /\ some({"qty", "quantity", "qnty"})
                      /\ some({"cost", "unit cost", "price", "unit price", "rate"})
          [] i = 6 -> /\ some({"date", "posting date", "transaction date"})
                      /\ some({"amount", "credit", "debit"})
                      /\ some({"description", "memo", "details"})

----------------------------------------------------------------------------
(* C13: the dispatch of importFile *)

\* The import_type a normalizer records for the files of a tag.
LastImportType(d) == d.import_metadata[Len(d.import_metadata)].import_type

\* C13: importFile rejects a file classified unknown or stripe_csv with an
\* explicit error and writes nothing for it; a file of any other tag goes
\* to the normalizer of that tag and to no other.
C13_DispatchByTag ==
    (call.op = "importFile") =>
        LET tag == detectCsvType(call.arg)
        IN  IF tag \in {"unknown", "stripe_csv"}
            THEN /\ ~call.ok
                 /\ call.result.error =
                       (IF tag = "unknown" THEN "Unknown CSV structure"
                        ELSE "Stripe CSV not supported yet. Use Stripe backfill API.")
                 /\ db = before
            ELSE /\ Len(db.import_metadata) = Len(before.import_metadata) + 1
                 /\ LastImportType(db) = tag
                 /\ call.ok => call.result.detectedType = tag
                 /\ tag = "po_bills" => db = importPoBills(before, call.arg).db
                 /\ tag = "halo_invoices" => db = importHaloInvoices(before, call.arg).db
                 /\ tag \in {"bank_batch", "bank_generic"} =>
                        db = importBankFile(before, call.arg, tag).db

\* A Stripe file was rejected after another file had been imported, and
\* the store is as that import left it.
C13_Witness ==
    /\ call.op = "importFile"
    /\ detectCsvType(call.arg) = "stripe_csv"
    /\ ~call.ok
    /\ Len(db.import_metadata) > 0
    /\ db = before

----------------------------------------------------------------------------
(* Purchase-order files, imported into a store that may hold the file *)

\* A file with a PO_ID column and the columns cols of the sample row.
PoIdFile(cols) ==
    LET keys == <<"PO_ID">> \o cols
        sample == PoRow(<<"A">>, <<"R">>, <<"01/05/2024">>, <<"W">>, <<"1", "0">>,
                        <<"2", ".", "5", "0">>, <<>>)
    IN  File("po.csv", keys,
             <<[k \in Range(keys) |-> IF k = "PO_ID" THEN <<"7">> ELSE sample[k]]>>)

\* Files of 1..MaxPoRows sample rows with every column, and files that lack
\* the cost column, the vendor and reference columns, or every column.
PoImportFiles ==
    {PoFileOf("po.csv", rows) : rows \in SeqsOf(PoRows, 1, MaxPoRows)}
    \cup {PoIdFile(<<"Vendor", "RefNumber", "Item", "Qty">>),
          PoIdFile(<<"Item", "Qty", "Cost">>),
          PoIdFile(<<>>)}

\* The store before the call: empty, or holding the file from an earlier
\* importFile, or holding it processed by processCsvImport with the bills
\* that importFile returned.
PriorDb(file, prior) ==
    IF prior = "none" THEN EmptyDb
    ELSE With(importFile(EmptyDb, file), LAMBDA first :
            IF prior = "stored" THEN first.db
            ELSE processCsvImport(first.db, first.result.importId, first.result.bills).db)

InitPo ==
    /\ log = <<>>
    /\ proc = <<>>
    /\ \E file \in PoImportFiles, prior \in {"none", "stored", "processed"} :
          /\ prior = "processed" => parseBillsFromCsv(Content(file), Today).ok
          /\ db = PriorDb(file, prior)
          /\ before = PriorDb(file, prior)
          /\ call = [op |-> "importFile", arg |-> file, prior |-> prior, done |-> FALSE,
                     ok |-> TRUE, result |-> <<>>]

ImportPoFile ==
    /\ call.op = "importFile"
    /\ ~call.done
    /\ \E r \in {importFile(db, call.arg)} :
          /\ db' = r.db
          /\ call' = [call EXCEPT !.done = TRUE, !.ok = r.ok, !.result = r.result]
    /\ before' = db
    /\ UNCHANGED <<log, proc>>

NextPo == ImportPoFile

SpecPo == InitPo /\ [][NextPo]_vars

----------------------------------------------------------------------------
(* C14: the result of a duplicate import *)

\* C14: an import rejected as a duplicate file ends in a returned result,
\* not a thrown error, and the result tells the processed flag of the
\* earlier import: a processed earlier import and an unprocessed one give
\* different results.
C14_DuplicateTellsProcessed ==
    (call.op = "importFile" /\ call.done /\ call.prior # "none") =>
        /\ call.ok
        /\ call.result.isDuplicate
        /\ call.result.importId \in 1..Len(before.csv_imports)
        /\ (call.result.error = "CSV already imported and processed")
              = before.csv_imports[call.result.importId].processed
        /\ (call.result.error = "CSV already imported but not processed")
              = ~before.csv_imports[call.result.importId].processed

\* A file whose earlier import was processed was imported again.
C14_Witness ==
    /\ call.op = "importFile"
    /\ call.done
    /\ call.prior = "processed"
    /\ call.result.isDuplicate
    /\ before.csv_imports[call.result.importId].processed

----------------------------------------------------------------------------
(* C15: a purchase-order file that fails validation *)

\* The roles of a purchase-order file and the synonyms that resolve them.
PoRoles == <<"vendor", "refnumber", "item", "qty", "cost">>
PoSyns == <<VendorSyns, RefSyns, ItemSyns, QtySyns, CostSyns>>

\* The roles that no column of the file resolves, in role order.
UnresolvedRoles(file) ==
    SelectSeq(PoRoles, LAMBDA role :
        \A i \in 1..5 : PoRoles[i] = role => findActualCol(file.keys, PoSyns[i]) = NoCol)

\* No row of the file has both a vendor and a reference.
NoGroups(file) ==
    \A i \in 1..Len(file.rows) :
        \/ sanitize(Cell(file.rows[i], findActualCol(file.keys, VendorSyns))) = <<>>
        \/ sanitize(Cell(file.rows[i], findActualCol(file.keys, RefSyns))) = <<>>

\* The import reached validation (the file was not stored before) and the
\* file does not pass it.
FailsValidation ==
    /\ call.op = "importFile"
    /\ call.done
    /\ call.prior = "none"
    /\ (UnresolvedRoles(call.arg) # <<>> \/ NoGroups(call.arg))

\* C15: when a purchase-order file fails validation, because a required
\* role has no column or because no row has both vendor and reference,
\* importFile throws the validation error, which names the unresolved
\* roles, and the import_metadata row created for the file stays stored.
C15_MetadataSurvivesValidationError ==
    FailsValidation =>
        /\ ~call.ok
        /\ call.result.missing = UnresolvedRoles(call.arg)
        /\ call.result.error = IF UnresolvedRoles(call.arg) # <<>>
                               THEN "Missing required columns for PO"
                               ELSE "No valid bills found (missing Vendor/RefNumber on rows)."
        /\ Len(db.import_metadata) = Len(before.import_metadata) + 1
        /\ db.import_metadata[Len(db.import_metadata)].original_filename = call.arg.filename
        /\ db.import_metadata[Len(db.import_metadata)].import_type = "po_bills"

\* A file without a cost column was imported and rejected.
C15_Witness ==
    /\ FailsValidation
    /\ ~call.ok
    /\ call.result.missing = <<"cost">>
    /\ Len(db.import_metadata) = 1

\* A file whose rows all lack a vendor or a reference was imported and rejected.
C15_WitnessNoGroups ==
    /\ FailsValidation
    /\ UnresolvedRoles(call.arg) = <<>>
    /\ ~call.ok
    /\ Len(db.import_metadata) = 1

----------------------------------------------------------------------------
(* insertBankTransactions and the ledger projection of its rows *)

\* A transaction as a caller of insertBankTransactions hands it over, with
\* the raw payload the ledger row keeps.
LedgerTxn(externalId, amount, raw) ==
    [external_id |-> externalId, txn_date |-> <<"01/05/2024">>, amount |-> amount,
     description |-> <<"T", "e", "a">>, memo |-> <<>>, raw |-> raw,
     checksum |-> hashRow([id |-> externalId, amount |-> amount, raw |-> raw])]

\* Raw payloads: none, a number, and a text that is not JSON.
RawSamples == {<<>>, <<"7">>, <<"n", "/", "a">>}

LedgerTxns ==
    {LedgerTxn(externalId, amount, raw) :
        externalId \in {<<>>, <<"T", "1">>, <<"T", "2">>},
        amount \in {0 - 4500, 100000},
        raw \in RawSamples}

\* The store before the call: empty, or holding transaction T1 from an
\* earlier call.
LedgerPriors ==
    {EmptyDb,
     insertBankTransactions(EmptyDb, "BankCSV",
                            <<LedgerTxn(<<"T", "1">>, 0 - 4500, <<>>)>>).db}

InitLedger ==
    /\ log = <<>>
    /\ proc = <<>>
    /\ \E prior \in LedgerPriors, txns \in SeqsOf(LedgerTxns, 1, 2) :
          /\ db = prior
          /\ before = prior
          /\ call = [op |-> "insertBankTransactions", arg |-> txns, done |-> FALSE,
                     ok |-> TRUE, result |-> <<>>]

InsertLedgerTxns ==
    /\ call.op = "insertBankTransactions"
    /\ ~call.done
    /\ \E r \in {insertBankTransactions(db, "BankCSV", call.arg)} :
          /\ db' = r.db
          /\ call' = [call EXCEPT !.done = TRUE, !.ok = r.ok, !.result = [count |-> r.count]]
    /\ before' = db
    /\ UNCHANGED <<log, proc>>

NextLedger == InsertLedgerTxns

SpecLedger == InitLedger /\ [][NextLedger]_vars

----------------------------------------------------------------------------
(* C16: the ledger projection and the bank transaction write *)

\* The bank rows of the store for transaction t.
BankRowsOf(d, t) ==
    {i \in 1..Len(d.bank_transactions) :
        \/ d.bank_transactions[i].checksum = t.checksum
        \/ /\ t.external_id # <<>>
           /\ d.bank_transactions[i].external_id = t.external_id}

\* C16: the ledger projection never makes the bank transaction write fail:
\* whatever the projection insert does, insertBankTransactions surfaces no
\* error and every transaction of the call has its bank row committed.
C16_ProjectionNeverFailsBankWrite ==
    (call.op = "insertBankTransactions" /\ call.done) =>
        /\ call.ok
        /\ \A i \in 1..Len(call.arg) : BankRowsOf(db, call.arg[i]) # {}

\* The part of C16 that the code keeps: a projection that meets a row with
\* the same (source, external_id) is skipped without an error.
C16_ConflictIsNoOp ==
    (/\ call.op = "insertBankTransactions"
     /\ call.done
     /\ \A i \in 1..Len(call.arg) : JsonbAccepts(RawOf(call.arg[i]))) =>
        /\ call.ok
        /\ \A i \in 1..Len(call.arg) : BankRowsOf(db, call.arg[i]) # {}
        /\ \A i, j \in 1..Len(db.ledger_transactions) :
              (/\ i # j
               /\ db.ledger_transactions[i].external_id # NullText
               /\ db.ledger_transactions[i].source_id = db.ledger_transactions[j].source_id)
                  => db.ledger_transactions[i].external_id # db.ledger_transactions[j].external_id

\* A call whose second projection insert failed: the error was thrown and
\* the bank row of the first transaction is gone with the rollback.
C16_RolledBack ==
    /\ call.op = "insertBankTransactions"
    /\ call.done
    /\ ~call.ok
    /\ Len(call.arg) = 2
    /\ JsonbAccepts(RawOf(call.arg[1]))
    /\ BankRowsOf(db, call.arg[1]) = {}
    /\ Len(db.bank_transactions) = Len(before.bank_transactions)

----------------------------------------------------------------------------
(* Locations, contracts and contacts of a client *)

MaxRefCalls == 2

\* A UUID that no row has.
UnknownUuid == 0 - 7

\* The store with one client and one location of it.
RefsDb ==
    With(getOrCreateClient(EmptyDb, "HaloPSA", <<"C", "1">>, Acme), LAMBDA c :
        upsertLocation(c.db, "HaloPSA", c.uuid,
                       [external_id |-> <<"L", "1">>, uuid |-> NullId, name |-> <<"H", "Q">>]).db)

ClientUuid == RefsDb.clients[1].uuid
LocationUuid == RefsDb.locations[1].uuid

RefIds == {<<>>, <<"K", "1">>}
RefNames == {<<"H", "Q">>, <<"L", "a", "b">>}

InitRefs ==
    /\ db = RefsDb
    /\ before = RefsDb
    /\ call = [op |-> "none", arg |-> <<>>, ok |-> TRUE, result |-> <<>>]
    /\ log = <<>>
    /\ proc = <<>>

\* One call with a client UUID and a location UUID (NullId: none given).
CalledRef(op, clientUuid, locationUuid, child, r) ==
    Called(op, [clientUuid |-> clientUuid, locationUuid |-> locationUuid, child |-> child],
           r, [id |-> r.id, error |-> r.error])

UpsertLocation ==
    /\ Len(log) < MaxRefCalls
    /\ \E clientUuid \in {ClientUuid, UnknownUuid}, id \in RefIds \cup {<<"L", "1">>},
          name \in RefNames :
          \E location \in {[external_id |-> id, uuid |-> NullId, name |-> name]} :
              CalledRef("upsertLocation", clientUuid, NullId, location,
                        upsertLocation(db, "HaloPSA", clientUuid, location))

UpsertContract ==
    /\ Len(log) < MaxRefCalls
    /\ \E clientUuid \in {ClientUuid, UnknownUuid},
          locationUuid \in {NullId, LocationUuid, UnknownUuid},
          id \in RefIds, name \in RefNames :
          \E contract \in {[external_id |-> id, uuid |-> NullId, name |-> name]} :
              CalledRef("upsertContract", clientUuid, locationUuid, contract,
                        upsertContract(db, "HaloPSA", clientUuid, contract, locationUuid))

UpsertContact ==
    /\ Len(log) < MaxRefCalls
    /\ \E clientUuid \in {ClientUuid, UnknownUuid},
          locationUuid \in {NullId, LocationUuid, UnknownUuid},
          id \in RefIds, name \in RefNames :
          \E contact \in {[external_id |-> id, uuid |-> NullId, first_name |-> name]} :
              CalledRef("upsertContact", clientUuid, locationUuid, contact,
                        upsertContact(db, "HaloPSA", clientUuid, contact, locationUuid))

NextRefs == UpsertLocation \/ UpsertContract \/ UpsertContact

SpecRefs == InitRefs /\ [][NextRefs]_vars

----------------------------------------------------------------------------
(* C17: a client UUID or location UUID that no row has *)

RefOps == {"upsertLocation", "upsertContract", "upsertContact"}

\* The call named a client UUID that no client has.
UnknownClient ==
    /\ call.op \in RefOps
    /\ ByUuid(before, "clients", call.arg.clientUuid) = {}

\* The call named a location UUID that no location has.
UnknownLocation ==
    /\ call.op \in RefOps
    /\ call.arg.locationUuid # NullId
    /\ ByUuid(before, "locations", call.arg.locationUuid) = {}

ChildTables == {"clients", "locations", "contracts", "contacts"}

\* C17: upsertLocation, upsertContract and upsertContact, given a client
\* UUID or a location UUID that no row has, fail with a not-found error,
\* create no parent row and insert or update no location, contract or
\* contact row.
C17_UnknownParentFails ==
    (UnknownClient \/ UnknownLocation) =>
        /\ ~call.ok
        /\ call.result.error = "Client not found for provided msp_customer_uuid"
        /\ \A t \in ChildTables : db[t] = before[t]

\* The part of C17 that the code keeps: an unknown client UUID fails the
\* call with the not-found error and leaves the four tables as they were.
C17_UnknownClientFails ==
    UnknownClient =>
        /\ ~call.ok
        /\ call.result.error = "Client not found for provided msp_customer_uuid"
        /\ \A t \in ChildTables : db[t] = before[t]

\* A contract was stored for a location UUID that no location has: the call
\* succeeded and the row has no location.
C17_StoredWithoutLocation ==
    /\ call.op = "upsertContract"
    /\ UnknownLocation
    /\ call.ok
    /\ Len(db.contracts) = Len(before.contracts) + 1
    /\ db.contracts[Len(db.contracts)].location_id = NullId

----------------------------------------------------------------------------
(* getOrCreateClient and getOrCreateTenant, called one after the other *)

MaxResolveCalls == 3

ResolveIds == {NullText, <<"C", "1">>}
ResolveNames == {Acme, <<"A", "C", "M", "E">>, Bolt}

TableOf(op) == IF op = "getOrCreateClient" THEN "clients" ELSE "msp_tenants"

InitResolve ==
    /\ db = EmptyDb
    /\ before = EmptyDb
    /\ call = [op |-> "none", arg |-> <<>>, ok |-> TRUE, result |-> <<>>]
    /\ log = <<>>
    /\ proc = <<>>

\* One call: its result, and the number of rows it added to its table.
Resolved(op, externalId, name, r) ==
    Called(op, [external_id |-> externalId, name |-> name], r,
           [id |-> r.id, uuid |-> r.uuid,
            added |-> Len(r.db[TableOf(op)]) - Len(db[TableOf(op)])])

GetOrCreateClient ==
    /\ Len(log) < MaxResolveCalls
    /\ \E externalId \in ResolveIds, name \in ResolveNames :
          Resolved("getOrCreateClient", externalId, name,
                   getOrCreateClient(db, "HaloPSA", externalId, name))

GetOrCreateTenant ==
    /\ Len(log) < MaxResolveCalls
    /\ \E externalId \in ResolveIds, name \in ResolveNames :
          Resolved("getOrCreateTenant", externalId, name,
                   getOrCreateTenant(db, "HaloPSA", externalId, name))

NextResolve == GetOrCreateClient \/ GetOrCreateTenant

SpecResolve == InitResolve /\ [][NextResolve]_vars

----------------------------------------------------------------------------
(* C18: the order of resolution, and repeated calls *)

\* Calls i and j of the log name the same external_id, or the same name in
\* some letter case, to the same function.
SameEntity(i, j) ==
    /\ log[i].op = log[j].op
    /\ \/ /\ log[i].arg.external_id # NullText
          /\ log[i].arg.external_id = log[j].arg.external_id
       \/ toLowerCase(log[i].arg.name) = toLowerCase(log[j].arg.name)

\* C18 as stated: in a sequential series of calls a later call with the same
\* external_id, or with the same name in any letter case, as an earlier call
\* returns the same id and UUID and adds no row.
C18_RepeatReturnsSameEntity ==
    \A i, j \in 1..Len(log) :
        (i < j /\ SameEntity(i, j)) =>
            /\ log[j].result.id = log[i].result.id
            /\ log[j].result.uuid = log[i].result.uuid
            /\ log[j].result.added = 0

\* The rows of the table of the last call, before it, with its external_id
\* and with its name in some letter case.
RowsWithExt ==
    {i \in 1..Len(before[TableOf(call.op)]) :
        /\ call.arg.external_id # NullText
        /\ before[TableOf(call.op)][i].external_id = call.arg.external_id}
RowsWithName ==
    {i \in 1..Len(before[TableOf(call.op)]) :
        toLowerCase(before[TableOf(call.op)][i].name) = toLowerCase(call.arg.name)}

\* The call before the last one had the same function and arguments, the
\* name in some letter case.
RepeatedAtOnce ==
    /\ Len(log) >= 2
    /\ log[Len(log) - 1].op = call.op
    /\ log[Len(log) - 1].arg.external_id = call.arg.external_id
    /\ toLowerCase(log[Len(log) - 1].arg.name) = toLowerCase(call.arg.name)

\* C18, amended: a call resolves to the row with its external_id when one is
\* given and a row has it; else to the newest row with its name in any
\* letter case; else to a new row with a UUID no row had.  A call repeated
\* at once with the same external_id and the same name in any letter case
\* returns the same id and UUID and adds no row, and so does every later
\* call without external_id whose name an earlier call without
\* external_id had.
C18_ResolutionOrder ==
    call.op \in {"getOrCreateClient", "getOrCreateTenant"} =>
        /\ call.ok
        /\ IF RowsWithExt # {}
           THEN call.result.id \in RowsWithExt /\ call.result.added = 0
           ELSE IF RowsWithName # {}
           THEN call.result.id = MaxOf(RowsWithName) /\ call.result.added = 0
           ELSE /\ call.result.id = Len(before[TableOf(call.op)]) + 1
                /\ call.result.added = 1
                /\ \A t \in {"clients", "msp_tenants"} : \A i \in 1..Len(before[t]) :
                      before[t][i].uuid # call.result.uuid
        /\ call.result.uuid = db[TableOf(call.op)][call.result.id].uuid
        /\ RepeatedAtOnce =>
              /\ call.result.id = log[Len(log) - 1].result.id
              /\ call.result.uuid = log[Len(log) - 1].result.uuid
              /\ call.result.added = 0
        /\ \A i \in 1..(Len(log) - 1) :
              (/\ call.arg.external_id = NullText
               /\ log[i].arg.external_id = NullText
               /\ log[i].op = call.op
               /\ toLowerCase(log[i].arg.name) = toLowerCase(call.arg.name))
                  => /\ call.result.id = log[i].result.id
                     /\ call.result.uuid = log[i].result.uuid
                     /\ call.result.added = 0

\* A call was repeated at once with the name in another letter case and
\* returned the row of the first call.
C18_Witness ==
    /\ RepeatedAtOnce
    /\ call.arg.name # log[Len(log) - 1].arg.name
    /\ call.result.id = log[Len(log) - 1].result.id
    /\ log[Len(log) - 1].result.added = 1
    /\ call.result.added = 0

----------------------------------------------------------------------------
(* The interchange file: generateBillsIif and generateItemsIif *)

Tab == <<"\t">>
CrLf == <<"\r", "\n">>

\* Array.prototype.join: the texts with sep between them.
RECURSIVE Join(_, _)
Join(texts, sep) ==
    IF texts = <<>> THEN <<>>
    ELSE IF Len(texts) = 1 THEN texts[1]
    ELSE texts[1] \o sep \o Join(Tail(texts), sep)

\* Number.prototype.toFixed(2) of an amount in cents.
toFixed(cents) ==
    (IF cents < 0 THEN <<"-">> ELSE <<>>)
    \o DigitsOf(Abs(cents) \div 100)
    \o <<".", Digits[((Abs(cents) % 100) \div 10) + 1], Digits[(Abs(cents) % 10) + 1]>>

\* String(quantity || '') of a quantity in thousandths: empty for 0.
QuantityText(q) ==
    IF q = 0 THEN <<>>
    ELSE (IF q < 0 THEN <<"-">> ELSE <<>>) \o NumberText(Abs(q))

\* The account names when no default account is configured.
ApAccount == <<"Accounts Payable">>
InventoryAssetAccount == <<"Inventory Asset">>
CogsAccount == <<"Cost of Goods Sold">>
IncomeAccount == <<"Sales">>

TrnsHeader ==
    <<<<"!TRNS">>, <<"TRNSID">>, <<"TRNSTYPE">>, <<"DATE">>, <<"ACCNT">>, <<"NAME">>,
      <<"CLASS">>, <<"AMOUNT">>, <<"DOCNUM">>, <<"MEMO">>, <<"CLEAR">>, <<"TOPRINT">>,
      <<"ADDR5">>, <<"DUEDATE">>, <<"TERMS">>>>
SplHeader ==
    <<<<"!SPL">>, <<"SPLID">>, <<"TRNSTYPE">>, <<"DATE">>, <<"ACCNT">>, <<"NAME">>,
      <<"CLASS">>, <<"AMOUNT">>, <<"DOCNUM">>, <<"MEMO">>, <<"CLEAR">>, <<"QNTY">>,
      <<"PRICE">>, <<"INVITEM">>>>
ItemHeader ==
    <<<<"!INVITEM">>, <<"NAME">>, <<"DESC">>, <<"PRICE">>, <<"COST">>, <<"ACCNT">>,
      <<"ASSETACCNT">>, <<"COGSACCNT">>>>

TrnsFields(bill) ==
    <<<<"TRNS">>, <<>>, <<"BILL">>, bill.date, ApAccount, bill.vendor, <<>>,
      <<"-">> \o toFixed(bill.total_amount), bill.ref_num, <<>>, <<"N">>, <<"N">>, <<>>,
      bill.due_date, bill.terms>>

SplFields(bill, line) ==
    <<<<"SPL">>, <<>>, <<"BILL">>, bill.date, InventoryAssetAccount, <<>>, <<>>,
      toFixed(line.line_amount), <<>>, line.description, <<"N">>,
      QuantityText(line.quantity), toFixed(line.unit_cost), line.item>>

\* The lines pushed for one bill.
BillLines(bill) ==
    <<Join(TrnsFields(bill), Tab)>>
    \o [i \in 1..Len(bill.lines) |-> Join(SplFields(bill, bill.lines[i]), Tab)]
    \o <<<<"ENDTRNS">>>>

RECURSIVE AllBillLines(_)
AllBillLines(bills) ==
    IF bills = <<>> THEN <<>> ELSE BillLines(Head(bills)) \o AllBillLines(Tail(bills))

generateBillsIif(bills) ==
    Join(<<Join(TrnsHeader, Tab), Join(SplHeader, Tab), <<"!ENDTRNS">>>> \o AllBillLines(bills),
         CrLf) \o CrLf

\* The order of the characters of the model in a byte-wise collation.
CharOrder == <<"\t", "\n", "\r", " ", "\"", "$", ".", "/", "|">> \o Digits \o Uppers \o Lowers
CharRank(c) == IF \E i \in 1..Len(CharOrder) : CharOrder[i] = c
               THEN CHOOSE i \in 1..Len(CharOrder) : CharOrder[i] = c
               ELSE 0

RECURSIVE TextBefore(_, _)
TextBefore(a, b) ==
    IF a = <<>> THEN b # <<>>
    ELSE IF b = <<>> THEN FALSE
    ELSE IF a[1] = b[1] THEN TextBefore(Tail(a), Tail(b))
    ELSE CharRank(a[1]) < CharRank(b[1])

\* getInventoryForExport: the committed inventory rows, ORDER BY item_name.
\* item_name is UNIQUE, so the order is total.
getInventoryForExport(d) ==
    With(SelectSeq(d.inventory, LAMBDA r : r.xid = Committed), LAMBDA rows :
        [k \in 1..Len(rows) |->
            rows[CHOOSE i \in 1..Len(rows) :
                    Cardinality({j \in 1..Len(rows) :
                        TextBefore(rows[j].item_name, rows[i].item_name)}) = k - 1]])

\* String(Number(v)) of a NUMERIC(12,4) value v given in ten-thousandths.
CostText(v) ==
    With(Abs(v), LAMBDA a :
    With(DropZeros(<<Digits[((a % 10000) \div 1000) + 1], Digits[((a % 1000) \div 100) + 1],
                     Digits[((a % 100) \div 10) + 1], Digits[(a % 10) + 1]>>), LAMBDA frac :
        (IF v < 0 THEN <<"-">> ELSE <<>>)
        \o DigitsOf(a \div 10000) \o (IF frac = <<>> THEN <<>> ELSE <<".">> \o frac)))

Quoted(text) == <<"\"">> \o text \o <<"\"">>

ItemFields(row) ==
    <<<<"INVITEM">>, Quoted(row.item_name), Quoted(row.description), <<"0">>,
      CostText(row.average_unit_cost), Quoted(IncomeAccount), Quoted(InventoryAssetAccount),
      Quoted(CogsAccount)>>

generateItemsIif(d) ==
    With(getInventoryForExport(d), LAMBDA inventory :
        Join(<<Join(ItemHeader, Tab)>>
             \o [i \in 1..Len(inventory) |-> Join(ItemFields(inventory[i]), Tab)], CrLf)
        \o CrLf)

----------------------------------------------------------------------------
(* The exports as a state machine: Init draws the bills of one export, the
   action writes the file. *)

MaxBills == 2

\* A bill of one line as a caller hands it to the export: quantity in
\* thousandths, unit cost in cents.
ExportBill(vendor, item, description, quantity, unitCost) ==
    [vendor |-> vendor, ref_num |-> <<"R">>, date |-> <<"01/05/2024">>,
     total_amount |-> RoundMillionthsToCents(quantity * unitCost * 10),
     due_date |-> <<"01/05/2024">>, terms |-> DefaultTerms,
     lines |-> <<[item |-> item, description |-> description, quantity |-> quantity,
                  unit_cost |-> unitCost,
                  line_amount |-> RoundMillionthsToCents(quantity * unitCost * 10)]>>]

\* The bills parseBillsFromCsv returns for the one-row and two-row files.
ParsedBills ==
    UNION {Range(parseBillsFromCsv(content, Today).bills) :
              content \in {c \in PoContents : c.keys = PoKeys /\ Len(c.rows) <= 2}}

\* Bills that did not pass through parseBillsFromCsv: a vendor credit, a
\* vendor with a tab, an item with a newline and a quoted description.
DirectBills ==
    {ExportBill(<<"A">>, <<"W">>, <<>>, 0 - 1000, 300),
     ExportBill(<<"A", "\t", "B">>, <<"W">>, <<>>, 2000, 300),
     ExportBill(<<"A">>, <<"G", "\n">>, <<"\"", "x", "\"">>, 2000, 300)}

ExportBills == ParsedBills \cup DirectBills

\* The store after processCsvImport has received the bills.
ExportDb(bills) ==
    processCsvImport(storeCsvImport(EmptyDb, PriorFile.filename, Content(PriorFile)).db, 1,
                     bills).db

InitExport ==
    /\ log = <<>>
    /\ proc = <<>>
    /\ \E bills \in SeqsOf(ExportBills, 0, MaxBills),
          op \in {"generateBillsIif", "generateItemsIif"} :
          /\ db = ExportDb(bills)
          /\ before = ExportDb(bills)
          /\ call = [op |-> op, arg |-> bills, done |-> FALSE, out |-> <<>>]

GenerateBillsIif ==
    /\ call.op = "generateBillsIif"
    /\ ~call.done
    /\ call' = [call EXCEPT !.done = TRUE, !.out = generateBillsIif(call.arg)]
    /\ UNCHANGED <<db, before, log, proc>>

GenerateItemsIif ==
    /\ call.op = "generateItemsIif"
    /\ ~call.done
    /\ call' = [call EXCEPT !.done = TRUE, !.out = generateItemsIif(db)]
    /\ UNCHANGED <<db, before, log, proc>>

NextExport == GenerateBillsIif \/ GenerateItemsIif

SpecExport == InitExport /\ [][NextExport]_vars

\* String.prototype.split(sep) for a separator that cannot overlap itself
\* (a tab, CR LF): the pieces of text between the places where sep stands.
SplitText(text, sep) ==
    LET at == {i \in 1..(Len(text) - Len(sep) + 1) : SubSeq(text, i, i + Len(sep) - 1) = sep}
        nth(k) == CHOOSE i \in at : Cardinality({j \in at : j < i}) = k - 1
    IN  [k \in 1..(Cardinality(at) + 1) |->
            SubSeq(text,
                   IF k = 1 THEN 1 ELSE nth(k - 1) + Len(sep),
                   IF k = Cardinality(at) + 1 THEN Len(text) ELSE nth(k) - 1)]

\* The lines of a file whose lines end in CR LF, and the fields of a line.
LinesOfFile(out) ==
    With(SplitText(out, CrLf), LAMBDA pieces : SubSeq(pieces, 1, Len(pieces) - 1))
FieldsOf(line) == SplitText(line, Tab)

----------------------------------------------------------------------------
(* C19: the lines of the bills export *)

\* The number of lines the bills before bill b take, headers included.
RECURSIVE LinesBefore(_, _)
LinesBefore(bills, b) ==
    IF b = 1 THEN 3 ELSE LinesBefore(bills, b - 1) + Len(bills[b - 1].lines) + 2

\* The field carries the number n, given in cents.
CarriesCents(field, n) == ~NumberOf(field).nan /\ NumberOf(field).val = 10 * n

\* The field carries the quantity q, given in thousandths: nothing for 0.
CarriesQuantity(field, q) ==
    IF q = 0 THEN field = <<>> ELSE ~NumberOf(field).nan /\ NumberOf(field).val = q

\* Line k of the file is the TRNS line of the bill.
IsTrnsOf(line, bill) ==
    With(FieldsOf(line), LAMBDA f :
        /\ Len(f) = Len(TrnsHeader)
        /\ f[1] = <<"TRNS">>
        /\ f[6] = bill.vendor
        /\ CarriesCents(f[8], 0 - bill.total_amount)
        /\ f[9] = bill.ref_num
        /\ f[14] = bill.due_date
        /\ f[15] = bill.terms)

IsSplOf(line, item) ==
    With(FieldsOf(line), LAMBDA f :
        /\ Len(f) = Len(SplHeader)
        /\ f[1] = <<"SPL">>
        /\ CarriesCents(f[8], item.line_amount)
        /\ CarriesQuantity(f[12], item.quantity)
        /\ CarriesCents(f[13], item.unit_cost)
        /\ f[14] = item.item)

\* The file has the three header lines and then, bill by bill, a TRNS
\* line, the SPL lines of the bill's line items and an ENDTRNS line.
BillBlocks(out, bills) ==
    With(LinesOfFile(out), LAMBDA ls :
        /\ Len(ls) = LinesBefore(bills, Len(bills) + 1)
        /\ FieldsOf(ls[1]) = TrnsHeader
        /\ FieldsOf(ls[2]) = SplHeader
        /\ ls[3] = <<"!ENDTRNS">>
        /\ \A b \in 1..Len(bills) :
              With(LinesBefore(bills, b), LAMBDA at :
                  /\ IsTrnsOf(ls[at + 1], bills[b])
                  /\ \A i \in 1..Len(bills[b].lines) :
                        IsSplOf(ls[at + 1 + i], bills[b].lines[i])
                  /\ ls[at + Len(bills[b].lines) + 2] = <<"ENDTRNS">>))

\* C19: generateBillsIif emits the three header lines, then for each bill in
\* input order one TRNS line with the negated total, the vendor, the
\* reference, the due date and the terms, one SPL line per line item in
\* input order with the line amount, quantity, unit cost and item code, and
\* one ENDTRNS line.
C19_BillBlocksInOrder ==
    (call.op = "generateBillsIif" /\ call.done) => BillBlocks(call.out, call.arg)

\* No text of the bill holds a tab, a carriage return, a newline or a quote.
CleanText(text) == \A i \in 1..Len(text) : text[i] \notin {"\t", "\r", "\n", "\""}
CleanBill(bill) ==
    /\ \A f \in {"vendor", "ref_num", "date", "due_date", "terms"} : CleanText(bill[f])
    /\ \A i \in 1..Len(bill.lines) :
          CleanText(bill.lines[i].item) /\ CleanText(bill.lines[i].description)

\* The part of C19 that the code keeps: the blocks are as stated for bills
\* with clean texts and a total that is not negative.
C19_BlocksOfPlainBills ==
    (/\ call.op = "generateBillsIif"
     /\ call.done
     /\ \A b \in 1..Len(call.arg) : CleanBill(call.arg[b]) /\ call.arg[b].total_amount >= 0)
        => BillBlocks(call.out, call.arg)

\* A bill with a negative total was exported: its amount field is the
\* total's text behind a second minus sign.
C19_DoubleMinus ==
    /\ call.op = "generateBillsIif"
    /\ call.done
    /\ Len(call.arg) = 1
    /\ call.arg[1].total_amount < 0
    /\ FieldsOf(LinesOfFile(call.out)[4])[8] = <<"-", "-", "3", ".", "0", "0">>

----------------------------------------------------------------------------
(* C20: the fields of the emitted lines *)

\* The number of fields of the layout a line belongs to, by its first field.
LayoutSize(tag) ==
    CASE tag \in {<<"!TRNS">>, <<"TRNS">>} -> Len(TrnsHeader)
      [] tag \in {<<"!SPL">>, <<"SPL">>} -> Len(SplHeader)
      [] tag \in {<<"!INVITEM">>, <<"INVITEM">>} -> Len(ItemHeader)
      [] tag \in {<<"!ENDTRNS">>, <<"ENDTRNS">>} -> 1
      [] OTHER -> 0

\* The field without the quotes generateItemsIif puts around it.
Unquoted(field) ==
    IF Len(field) >= 2 /\ field[1] = "\"" /\ field[Len(field)] = "\""
    THEN SubSeq(field, 2, Len(field) - 1) ELSE field

\* Every line of the file has the number of fields of its layout, and no
\* field holds a tab, a carriage return, a newline or a quote of its own.
WellFormed(out) ==
    \A k \in 1..Len(LinesOfFile(out)) :
        With(FieldsOf(LinesOfFile(out)[k]), LAMBDA f :
            /\ Len(f) = LayoutSize(f[1])
            /\ \A i \in 1..Len(f) : CleanText(Unquoted(f[i])))

\* C20: for every bill list passed to generateBillsIif and every inventory
\* row read by generateItemsIif, each emitted line splits on tabs into the
\* number of fields of its layout, and no field holds a raw tab, carriage
\* return, newline or double quote.
C20_EveryLineHasItsFields ==
    (call.op \in {"generateBillsIif", "generateItemsIif"} /\ call.done)
        => WellFormed(call.out)

\* The part of C20 that the code keeps: the files are well formed when the
\* bills come from parseBillsFromCsv, which sanitizes their texts.
C20_ParsedBillsAreWellFormed ==
    (/\ call.op \in {"generateBillsIif", "generateItemsIif"}
     /\ call.done
     /\ Range(call.arg) \subseteq ParsedBills)
        => WellFormed(call.out)

\* A bill whose vendor holds a tab was exported: its TRNS line has one
\* field more than the layout.
C20_ExtraField ==
    /\ call.op = "generateBillsIif"
    /\ call.done
    /\ Len(call.arg) = 1
    /\ ~CleanText(call.arg[1].vendor)
    /\ Len(FieldsOf(LinesOfFile(call.out)[4])) = Len(TrnsHeader) + 1

----------------------------------------------------------------------------
(* The export-iif operation and the export history *)

\* recordExport: the exports row and one export_transactions row per
\* transaction id, between BEGIN and COMMIT.  An id that no committed
\* transactions row has violates the foreign key: ROLLBACK, and the error is
\* thrown again.
recordExport(d, filename, transactions, totalAmount) ==
    IF \E i \in 1..Len(transactions) :
          \/ transactions[i] \notin 1..Len(d.transactions)
          \/ d.transactions[transactions[i]].xid # Committed
    THEN [ok |-> FALSE, db |-> d, id |-> NullId]
    ELSE [ok |-> TRUE, id |-> Len(d.exports) + 1,
          db |-> [d EXCEPT
                    !.exports = Append(@, [filename |-> filename, file_path |-> filename,
                                           transaction_count |-> Len(transactions),
                                           total_amount |-> totalAmount]),
                    !.export_transactions =
                        @ \o [i \in 1..Len(transactions) |->
                                [export_id |-> Len(d.exports) + 1,
                                 transaction_id |-> transactions[i]]]]]

\* bills.reduce((sum, bill) => sum + (Number(bill.total_amount) || 0), 0)
TotalAmount(bills) == SumSeq([b \in 1..Len(bills) |-> bills[b].total_amount])

\* A handler that answers 500 when the history cannot be written.
StrictExport(d, bills, suggestedName, transactionIds) ==
    With(IF transactionIds # <<>>
         THEN recordExport(d, suggestedName, transactionIds, TotalAmount(bills))
         ELSE [ok |-> TRUE, db |-> d, id |-> NullId], LAMBDA recorded :
        [status |-> IF recorded.ok THEN 200 ELSE 500,
         body |-> IF recorded.ok THEN generateBillsIif(bills) ELSE <<>>,
         logged |-> FALSE, db |-> recorded.db])

\* POST /export-iif: the file is generated first; recordExport runs only for
\* a non-empty list of transaction ids, inside a try whose catch logs the
\* error; the file is sent in either case.
exportIif(d, bills, suggestedName, transactionIds) ==
    With(IF transactionIds # <<>>
         THEN recordExport(d, suggestedName, transactionIds, TotalAmount(bills))
         ELSE [ok |-> TRUE, db |-> d, id |-> NullId], LAMBDA recorded :
        [status |-> 200, body |-> generateBillsIif(bills), logged |-> ~recorded.ok,
         db |-> recorded.db])

\* A transaction id that no transactions row has.
UnknownTransaction == 0 - 9

InitHistory ==
    /\ log = <<>>
    /\ proc = <<>>
    /\ \E bills \in SeqsOf(ExportBills, 0, MaxBills),
          transactionIds \in SeqsOf({1, 2, UnknownTransaction}, 0, 2) :
          /\ db = ExportDb(bills)
          /\ before = ExportDb(bills)
          /\ call = [op |-> "export-iif", arg |-> bills, transactionIds |-> transactionIds,
                     done |-> FALSE, out |-> <<>>]

ExportIif ==
    /\ call.op = "export-iif"
    /\ ~call.done
    /\ \E r \in {exportIif(db, call.arg, "bills_output.iif", call.transactionIds)} :
          /\ db' = r.db
          /\ call' = [call EXCEPT !.done = TRUE,
                                  !.out = [status |-> r.status, body |-> r.body,
                                           logged |-> r.logged]]
    /\ before' = db
    /\ UNCHANGED <<log, proc>>

NextHistory == ExportIif

SpecHistory == InitHistory /\ [][NextHistory]_vars

----------------------------------------------------------------------------
(* C21: a failure of the export history *)

\* C21: in the export-iif operation a failure of recordExport is logged and
\* swallowed: the generated interchange text is returned with no error,
\* whatever recordExport does, and a failed recordExport leaves no row.
C21_ExportSurvivesHistoryFailure ==
    (call.op = "export-iif" /\ call.done) =>
        /\ call.out.status = 200
        /\ call.out.body = generateBillsIif(call.arg)
        /\ call.out.logged =>
              /\ db.exports = before.exports
              /\ db.export_transactions = before.export_transactions

\* The history write failed on an unknown transaction id, and the file was
\* sent all the same.
C21_Witness ==
    /\ call.op = "export-iif"
    /\ call.done
    /\ UnknownTransaction \in Range(call.transactionIds)
    /\ call.out.logged
    /\ call.out.status = 200
    /\ call.arg # <<>>

----------------------------------------------------------------------------
(* C22: a failed processCsvImport *)

\* The rows of the four tables of an import that are not dead.
Live(d) == [t \in TxnTables |-> SelectSeq(d[t], LAMBDA r : r.xid # Dead)]

\* The items the purchase orders name.
StockItems == {<<"W">>, <<"G">>}

\* What the committed state shows of the four tables: how many rows each
\* has and the stock of each item.
Shown(d) ==
    [rows |-> [t \in TxnTables |-> Len(SelectSeq(d[t], LAMBDA r : r.xid = Committed))],
     stock |-> [item \in StockItems |-> Stock(d, item)]]

\* processed of import id as a reader outside the two calls sees it.
ProcessedShown(d, procs, id) == CommittedRow(d, procs, 0, "csv_imports", id).processed

\* The committed transactions rows of import id.
BillRows(d, id) ==
    Ids(d, "transactions", LAMBDA r : r.csv_import_id = id /\ r.xid = Committed)

C22_UpdateUndone ==
    /\ call.op = "processCsvImport"
    /\ \E p \in Callers :
          /\ proc[p].pc = "failed"
          /\ \E k \in 1..Len(db.inventory_transactions) :
                /\ db.inventory_transactions[k].xid = Dead
                /\ db.inventory_transactions[k].item_id \in 1..Len(before.inventory)
                /\ CommittedRow(db, proc, 0, "inventory",
                                db.inventory_transactions[k].item_id)
                      = before.inventory[db.inventory_transactions[k].item_id]

----------------------------------------------------------------------------
(* C23: one inventory change and one receipt per line *)

\* The lines of bill b from the first to line n.
LinesUpTo(bills, b, n) == [bills[b] EXCEPT !.lines = SubSeq(@, 1, n)]

\* The bills of call l cut after the last line whose inventory statement
\* has run, and after the last line whose receipt is written.
Applied(l) ==
    CASE l.pc \in {"mark", "commit", "done"} -> l.bills
      [] l.pc \in {"begin", "bill"} -> SubSeq(l.bills, 1, l.b - 1)
      [] l.pc = "receipt" ->
            Append(SubSeq(l.bills, 1, l.b - 1), LinesUpTo(l.bills, l.b, l.i))
      [] OTHER -> Append(SubSeq(l.bills, 1, l.b - 1), LinesUpTo(l.bills, l.b, l.i - 1))

Receipted(l) ==
    IF l.pc = "receipt"
    THEN Append(SubSeq(l.bills, 1, l.b - 1), LinesUpTo(l.bills, l.b, l.i - 1))
    ELSE Applied(l)

\* The inventory row of item as caller p has it.
StockOf(d, p, item) ==
    IF InventoryIds(d, p, item) = {}
    THEN [current_quantity |-> 0, total_received |-> 0, total_cost |-> 0,
          average_unit_cost |-> 0]
    ELSE d.inventory[MinOf(InventoryIds(d, p, item))]

\* The RECEIPT rows that caller p wrote for item since the call began.
ReceiptsOf(d, p, item) ==
    {k \in Len(before.inventory_transactions) + 1..Len(d.inventory_transactions) :
        /\ d.inventory_transactions[k].xid \in {Committed, p}
        /\ d.inventory_transactions[k].transaction_type = "RECEIPT"
        /\ d.inventory_transactions[k].item_id \in InventoryIds(d, p, item)}

\* C23: processCsvImport, with no other call at work, changes the inventory
\* row of an item once per line item processed and inserts one
\* inventory_transactions row of type RECEIPT per line item: after every
\* statement, and after COMMIT, current_quantity and total_received of each
\* item have grown by the sum of the quantities of its lines applied so far,
\* total_cost by the sum of their amounts, and the item has one receipt per
\* finished line.
C23_OnceEachLine ==
    call.op = "processCsvImport" =>
        \A p \in Callers :
            ((\A q \in Callers \ {p} : proc[q].pc = "begin")
             /\ proc[p].pc \notin {"rollback", "failed"}) =>
                \A item \in StockItems :
                    /\ StockOf(db, p, item).current_quantity =
                          Stock(before, item).current_quantity
                          + SumSeq(Quantities(LinesFor(Applied(proc[p]), item)))
                    /\ StockOf(db, p, item).total_received =
                          Stock(before, item).total_received
                          + SumSeq(Quantities(LinesFor(Applied(proc[p]), item)))
                    /\ StockOf(db, p, item).total_cost =
                          Stock(before, item).total_cost
                          + SumSeq(Amounts(LinesFor(Applied(proc[p]), item)))
                    /\ Cardinality(ReceiptsOf(db, p, item)) =
                          Len(LinesFor(Receipted(proc[p]), item))
                    /\ Cardinality(InventoryIds(db, p, item)) <= 1

\* An import of two lines for one item that the store already had is
\* committed: the row grew by both lines and two receipts were written.
C23_Witness ==
    /\ call.op = "processCsvImport"
    /\ \E p \in Callers :
          /\ proc[p].pc = "done"
          /\ \A q \in Callers \ {p} : proc[q].pc = "begin"
          /\ \E item \in StockItems :
                /\ Len(LinesFor(proc[p].bills, item)) = 2
                /\ StockIds(before, item) # {}
                /\ Cardinality(ReceiptsOf(db, p, item)) = 2
                /\ Stock(db, item).total_cost =
                      Stock(before, item).total_cost
                      + SumSeq(Amounts(LinesFor(proc[p].bills, item)))
                /\ Stock(db, item).total_cost # Stock(before, item).total_cost

----------------------------------------------------------------------------
(* The process-import operation, called again and again for one import *)

MaxImportCalls == 2

\* The bills a process-import request may carry for a file: the bills
\* importFile returned, the same with the item names missing, or none.
BillsSent(file) == {BillsOf(file), WithoutItem(BillsOf(file)), <<>>}

InitReprocess ==
    /\ log = <<>>
    /\ proc = <<>>
    /\ \E d \in {EmptyDb, DbWithStock}, file \in InventoryFiles \cup {PriorFile} :
          \E s \in {storeCsvImport(d, file.filename, Content(file))} :
              /\ db = s.db
              /\ before = s.db
              /\ call = [op |-> "process-import", file |-> file, importId |-> s.id,
                         n |-> 0, bills |-> <<>>, wasProcessed |-> FALSE, status |-> 0]

\* POST /process-import: processCsvImport(importId, bills), then
\* { success: true }, or status 500 with the error.
ProcessImport ==
    /\ call.op = "process-import"
    /\ call.n < MaxImportCalls
    /\ \E bills \in BillsSent(call.file) :
          \E r \in {processCsvImport(db, call.importId, bills)} :
              /\ db' = r.db
              /\ call' = [call EXCEPT !.n = @ + 1, !.bills = bills,
                                      !.wasProcessed = db.csv_imports[call.importId].processed,
                                      !.status = IF r.ok THEN 200 ELSE 500]
    /\ before' = db
    /\ UNCHANGED <<log, proc>>

NextReprocess == ProcessImport

SpecReprocess == InitReprocess /\ [][NextReprocess]_vars

----------------------------------------------------------------------------
(* C24: processCsvImport for an import that is already processed *)

\* C24: processCsvImport called for an import id that is already marked
\* processed writes nothing: no transactions, line_items or
\* inventory_transactions row is added and no inventory quantity or cost
\* changes.
C24_ProcessedImportWritesNothing ==
    (call.op = "process-import" /\ call.n > 0 /\ call.wasProcessed) =>
        Live(db) = Live(before)

\* The import was processed, and the call for it again succeeded.
C24_BillsTwice ==
    /\ call.op = "process-import"
    /\ call.wasProcessed
    /\ call.status = 200
    /\ call.bills # <<>>
    /\ Cardinality(BillRows(db, call.importId)) = 2 * Len(call.bills)
    /\ \E item \in StockItems :
          Stock(db, item).current_quantity # Stock(before, item).current_quantity

----------------------------------------------------------------------------
(* C25: the count of imported bank transactions *)

\* C25: the count insertBankTransactions returns, which importBankFile
\* returns as 'imported', is the number of bank_transactions rows the call
\* inserted; transactions skipped by the (source, external_id) conflict are
\* not counted.
C25_CountIsRowsInserted ==
    (call.op = "insertBankTransactions" /\ call.done /\ call.ok) =>
        call.result.count = Len(db.bank_transactions) - Len(before.bank_transactions)

\* What the code returns: the number of transactions it was given.
C25_CountIsRowsGiven ==
    (call.op = "insertBankTransactions" /\ call.done /\ call.ok) =>
        call.result.count = Len(call.arg)

\* A call whose only transaction was skipped by the conflict returned 1.
C25_SkippedIsCounted ==
    /\ call.op = "insertBankTransactions"
    /\ call.done
    /\ call.ok
    /\ call.result.count = 1
    /\ db.bank_transactions = before.bank_transactions

----------------------------------------------------------------------------
(* C26: the ledger projection of an invoice *)

\* The ledger_transactions rows that project invoice row inv: the rows of
\* type invoice of its source whose external_id is the invoice's
\* external_id, or its number when it has none.
ProjectionsOf(d, inv) ==
    Ids(d, "ledger_transactions",
        LAMBDA r : /\ r.txn_type = "invoice"
                   /\ r.source_id = inv.source_id
                   /\ r.external_id = IF inv.external_id # NullText THEN inv.external_id
                                      ELSE inv.number
                   /\ r.external_id # NullText)

\* invoice.total || 0 of the stored total.
TotalOrZero(inv) == IF inv.total = NullNum THEN 0 ELSE inv.total

MaxUpserts == 3

\* One invoice as it is imported and imported again: with or without an
\* external id, with one total or another.
ProjectionInvoices ==
    {[external_id |-> id, number |-> <<"N", "1">>, total |-> Num(total),
      customer |-> [external_id |-> <<"C", "1">>, name |-> Acme]] :
        id \in {<<"7", "7">>, <<>>}, total \in {15000, 20000, 0}}

InitProjection ==
    /\ db = EmptyDb
    /\ before = EmptyDb
    /\ call = [op |-> "none", arg |-> <<>>, ok |-> TRUE, result |-> <<>>]
    /\ log = <<>>
    /\ proc = <<>>

UpsertInvoice ==
    /\ Len(log) < MaxUpserts
    /\ \E invoice \in ProjectionInvoices, lines \in {<<>>, <<Line(<<"W">>, <<"w">>, 1000, 5000, 5000)>>} :
          \E r \in {upsertInvoiceWithLines(db, "HaloPSA", invoice, lines)} :
              Called("upsertInvoiceWithLines", [invoice |-> invoice, lines |-> lines], r,
                     [id |-> r.id])

NextProjection == UpsertInvoice

SpecProjection == InitProjection /\ [][NextProjection]_vars

\* C26: after any sequence of upsertInvoiceWithLines calls, every invoice
\* that has a ledger_transactions projection has projection amount equal to
\* the invoice's current total.
C26_ProjectionFollowsTotal ==
    \A i \in 1..Len(db.invoices) :
        \A k \in ProjectionsOf(db, db.invoices[i]) :
            db.ledger_transactions[k].amount = TotalOrZero(db.invoices[i])

\* An invoice was imported again with another total: the invoice row has
\* the new total, its projection the old one.
C26_StaleProjection ==
    /\ call.op = "upsertInvoiceWithLines"
    /\ call.ok
    /\ \E i \in 1..Len(db.invoices) :
          /\ i <= Len(before.invoices)
          /\ db.invoices[i].total # before.invoices[i].total
          /\ \E k \in ProjectionsOf(db, db.invoices[i]) :
                /\ db.ledger_transactions[k].amount = TotalOrZero(before.invoices[i])
                /\ db.ledger_transactions[k].amount # TotalOrZero(db.invoices[i])

----------------------------------------------------------------------------
(* C27: the classifier and the purchase-order normalizer *)

\* C27: every header set that detectCsvType tags po_bills resolves all five
\* required column roles (vendor, reference, item, quantity, cost) in
\* parseBillsFromCsv, so that importFile never hands a file to the
\* purchase-order normalizer that fails it with 'Missing required columns'.
C27_TaggedFilesResolveEveryRole ==
    (call.op = "detectCsvType" /\ call.done /\ call.ret = "po_bills") =>
        UnresolvedRoles(call.arg) = <<>>

\* A file tagged po_bills for its po_id header alone.
C27_PoIdAlone ==
    /\ call.op = "detectCsvType"
    /\ call.done
    /\ call.ret = "po_bills"
    /\ "po_id" \in getHeadersLower(call.arg)
    /\ UnresolvedRoles(call.arg) = PoRoles

\* A file without a po_id header tagged po_bills by the rule of the five
\* roles, whose item role only a description column fills.
C27_DescriptionForItem ==
    /\ call.op = "detectCsvType"
    /\ call.done
    /\ call.ret = "po_bills"
    /\ "po_id" \notin getHeadersLower(call.arg)
    /\ UnresolvedRoles(call.arg) = <<"item">>

\* The files for which the two agree: without a po_id header and with a
\* column among the item synonyms of the normalizer.
C27_AgreeOnItemColumns ==
    (/\ call.op = "detectCsvType"
     /\ call.done
     /\ call.ret = "po_bills"
     /\ "po_id" \notin getHeadersLower(call.arg)
     /\ findActualCol(call.arg.keys, ItemSyns) # NoCol) =>
        UnresolvedRoles(call.arg) = <<>>

----------------------------------------------------------------------------
(* One importHaloInvoices call on a file of two rows *)

\* Files of two rows, each with or without an invoice number and an
\* invoice id.
HaloPairFiles ==
    {File("invoices.csv", HaloKeys,
          <<HaloRow(n1, id1, Acme, <<"C", "1">>, <<"W">>, <<"1">>,
                    <<"5", ".", "0", "0">>, <<"5", ".", "0", "0">>),
            HaloRow(n2, id2, Acme, <<"C", "1">>, <<"G">>, <<"2">>,
                    <<"5", ".", "0", "0">>, <<"1", "0", ".", "0", "0">>)>>) :
        n1 \in {<<"N", "1">>, <<"N", "2">>, <<>>}, n2 \in {<<"N", "1">>, <<"N", "2">>, <<>>},
        id1 \in {<<"7", "7">>, <<"7", "8">>, <<>>}, id2 \in {<<"7", "7">>, <<"7", "8">>, <<>>}}

InitHalo ==
    /\ db = EmptyDb
    /\ before = EmptyDb
    /\ log = <<>>
    /\ proc = <<>>
    /\ \E file \in HaloPairFiles :
          call = [op |-> "importHaloInvoices", arg |-> file, done |-> FALSE, ok |-> TRUE,
                  result |-> <<>>]

ImportHaloFile ==
    /\ call.op = "importHaloInvoices"
    /\ ~call.done
    /\ detectCsvType(call.arg) = "halo_invoices"
    /\ \E r \in {importFile(db, call.arg)} :
          /\ db' = r.db
          /\ call' = [call EXCEPT !.done = TRUE, !.ok = r.ok, !.result = r.result]
    /\ before' = db
    /\ UNCHANGED <<log, proc>>

NextHalo == ImportHaloFile

SpecHalo == InitHalo /\ [][NextHalo]_vars

----------------------------------------------------------------------------
(* C28: row groups and invoice external ids *)

\* The external ids of the invoices of the row groups of a file.
GroupIds(file) ==
    [g \in 1..Len(HaloGroups(file.rows)) |-> HaloInvoice(HaloGroups(file.rows)[g][1]).external_id]

\* C28: within one importHaloInvoices call two row groups with different
\* grouping keys never resolve to the same invoice external_id, so that the
\* upsert of one group never deletes the invoice lines written for another
\* group of the file: every row of the file has its line stored.
C28_GroupsNeverShareAnInvoice ==
    (call.op = "importHaloInvoices" /\ call.done /\ call.ok) =>
        /\ \A g, h \in 1..Len(GroupIds(call.arg)) :
              (g # h /\ GroupIds(call.arg)[g] # <<>>) =>
                  GroupIds(call.arg)[g] # GroupIds(call.arg)[h]
        /\ Len(db.invoice_lines) = Len(call.arg.rows)

\* Two rows with different invoice numbers and one invoice id: two groups,
\* one invoice, and only the lines of the second group are stored.
C28_LinesOfFirstGroupDeleted ==
    /\ call.op = "importHaloInvoices"
    /\ call.done
    /\ call.ok
    /\ call.result.imported = 2
    /\ Len(db.invoices) = 1
    /\ Len(db.invoice_lines) = 1

\* What holds: when no two groups share an external id, every row of the
\* file has its line stored.
C28_DistinctIdsKeepLines ==
    (/\ call.op = "importHaloInvoices"
     /\ call.done
     /\ call.ok
     /\ \A g, h \in 1..Len(GroupIds(call.arg)) :
           (g # h /\ GroupIds(call.arg)[g] # <<>>) =>
               GroupIds(call.arg)[g] # GroupIds(call.arg)[h]) =>
        Len(db.invoice_lines) = Len(call.arg.rows)

----------------------------------------------------------------------------
(* Two callers of storeCsvImport at once.  Each caller sends its SELECT and
   its INSERT on a pooled connection with no BEGIN: each statement is a
   transaction of its own, and the statements of the two callers interleave
   in any order. *)

\* The store before the calls: empty, or holding the first file, processed
\* or not.
StorePriors ==
    {EmptyDb,
     storeCsvImport(EmptyDb, PriorFile.filename, Content(PriorFile)).db,
     DbWithStock}

StoreFiles == {PriorFile} \cup {f \in InventoryFiles : f.filename \in {"single.csv", "two.csv"}}

NewStoreCall(file) ==
    [pc |-> "select", file |-> file, id |-> NullId, isDuplicate |-> FALSE,
     alreadyProcessed |-> FALSE]

InitStore ==
    /\ log = <<>>
    /\ \E d \in StorePriors, f1 \in StoreFiles, f2 \in StoreFiles :
          /\ db = d
          /\ before = d
          /\ call = [op |-> "storeCsvImport", files |-> <<f1, f2>>]
          /\ proc = <<NewStoreCall(f1), NewStoreCall(f2)>>

\* SELECT id, processed FROM csv_imports WHERE checksum = $1, and the return
\* of the duplicate when a row is found.
SelectExisting(p) ==
    /\ call.op = "storeCsvImport"
    /\ proc[p].pc = "select"
    /\ \E existing \in {Ids(db, "csv_imports",
                           LAMBDA r : r.checksum = generateChecksum(Content(proc[p].file)))} :
          proc' = [proc EXCEPT ![p] =
                     IF existing # {}
                     THEN [@ EXCEPT !.pc = "done", !.id = MinOf(existing),
                                    !.isDuplicate = TRUE,
                                    !.alreadyProcessed =
                                        db.csv_imports[MinOf(existing)].processed]
                     ELSE [@ EXCEPT !.pc = "insert"]]
    /\ UNCHANGED <<db, before, call, log>>

\* INSERT INTO csv_imports ... RETURNING id: the row, or the error of the
\* unique constraint on checksum, which the call throws.
InsertImport(p) ==
    /\ call.op = "storeCsvImport"
    /\ proc[p].pc = "insert"
    /\ \E checksum \in {generateChecksum(Content(proc[p].file))} :
          IF Ids(db, "csv_imports", LAMBDA r : r.checksum = checksum) # {}
          THEN /\ proc' = [proc EXCEPT ![p].pc = "failed"]
               /\ db' = db
          ELSE /\ db' = Insert(db, "csv_imports",
                               [filename |-> proc[p].file.filename, checksum |-> checksum,
                                processed |-> FALSE])
               /\ proc' = [proc EXCEPT ![p].pc = "done", ![p].id = Len(db.csv_imports) + 1]
    /\ UNCHANGED <<before, call, log>>

NextStore == \E p \in Callers : SelectExisting(p) \/ InsertImport(p)

SpecStore == InitStore /\ [][NextStore]_vars

----------------------------------------------------------------------------
(* C29: two storeCsvImport calls with the same content at once *)

\* The csv_imports rows of d with the checksum of file.
ImportRows(d, file) ==
    Ids(d, "csv_imports", LAMBDA r : r.checksum = generateChecksum(Content(file)))

\* C29: when two storeCsvImport calls with identical content, not stored
\* before, run at once, in every interleaving one csv_imports row exists
\* for the checksum, one call returns isDuplicate = false and the other
\* isDuplicate = true with the same import id, and neither call fails.
C29_OneStoresOneIsDuplicate ==
    (/\ call.op = "storeCsvImport"
     /\ call.files[1] = call.files[2]
     /\ ImportRows(before, call.files[1]) = {}
     /\ \A p \in Callers : proc[p].pc \in {"done", "failed"}) =>
        /\ Cardinality(ImportRows(db, call.files[1])) = 1
        /\ \A p \in Callers : proc[p].pc = "done"
        /\ proc[1].isDuplicate # proc[2].isDuplicate
        /\ proc[1].id = proc[2].id

\* What the unique constraint keeps in every interleaving: one row for the
\* checksum at most, and every call that returns names that row.
C29_OneRowPerChecksum ==
    call.op = "storeCsvImport" =>
        \A p \in Callers :
            /\ Cardinality(ImportRows(db, call.files[p])) <= 1
            /\ proc[p].pc = "done" => ImportRows(db, call.files[p]) = {proc[p].id}

\* Both calls selected before either inserted: the second INSERT failed.
C29_SecondInsertFails ==
    /\ call.op = "storeCsvImport"
    /\ call.files[1] = call.files[2]
    /\ \E p \in Callers :
          /\ proc[p].pc = "failed"
          /\ \A q \in Callers \ {p} : proc[q].pc = "done" /\ ~proc[q].isDuplicate
    /\ Cardinality(ImportRows(db, call.files[1])) = 1

----------------------------------------------------------------------------
(* QuickBooks account configuration *)

\* upsertQbdAccount: the account of that name is updated with the role and
\* the flags given, or inserted; no other row is touched.
upsertQbdAccount(d, account) ==
    With(Ids(d, "qbd_accounts", LAMBDA r : r.name = account.name), LAMBDA existing :
        IF existing # {}
        THEN [ok |-> TRUE, id |-> MinOf(existing),
              db |-> [d EXCEPT !.qbd_accounts[MinOf(existing)] =
                         [@ EXCEPT !.role = account.role, !.is_default = account.is_default,
                                   !.active = account.active]]]
        ELSE [ok |-> TRUE, id |-> Len(d.qbd_accounts) + 1,
              db |-> Insert(d, "qbd_accounts",
                            [name |-> account.name, role |-> account.role,
                             is_default |-> account.is_default, active |-> account.active])])

\* setDefaultQbdAccount: between BEGIN and COMMIT, is_default = FALSE for
\* every account of the role, then is_default = TRUE and the role for the
\* account of that id, if there is one.
setDefaultQbdAccount(d, role, accountId) ==
    With([i \in 1..Len(d.qbd_accounts) |->
            IF d.qbd_accounts[i].role = role
            THEN [d.qbd_accounts[i] EXCEPT !.is_default = FALSE]
            ELSE d.qbd_accounts[i]], LAMBDA cleared :
        [ok |-> TRUE, id |-> accountId,
         db |-> [d EXCEPT !.qbd_accounts =
                    [i \in 1..Len(cleared) |->
                        IF i = accountId
                        THEN [cleared[i] EXCEPT !.is_default = TRUE, !.role = role]
                        ELSE cleared[i]]]])

\* The names of the default accounts of a role.
DefaultNames(d, role) ==
    {d.qbd_accounts[i].name :
        i \in Ids(d, "qbd_accounts", LAMBDA r : r.is_default /\ r.role = role)}

\* getDefaultQbdAccounts: the rows with is_default = TRUE come in no stated
\* order and the last row of a role gives the name of the role: the maps
\* the call may return.
getDefaultQbdAccounts(d) ==
    With({d.qbd_accounts[i].role :
            i \in Ids(d, "qbd_accounts", LAMBDA r : r.is_default /\ r.role # NullText)},
         LAMBDA roles :
            {map \in [roles -> {d.qbd_accounts[i].name : i \in 1..Len(d.qbd_accounts)}] :
                \A role \in roles : map[role] \in DefaultNames(d, role)})

MaxAccountCalls == 3

AccountNames == {<<"A", "P", "1">>, <<"A", "P", "2">>}
AccountRoles == {<<"accounts_payable">>, <<"inventory_asset">>}

InitAccounts ==
    /\ db = EmptyDb
    /\ before = EmptyDb
    /\ call = [op |-> "none", arg |-> <<>>, ok |-> TRUE, result |-> <<>>]
    /\ log = <<>>
    /\ proc = <<>>

\* POST /qbd/accounts
UpsertQbdAccount ==
    /\ Len(log) < MaxAccountCalls
    /\ \E name \in AccountNames, role \in AccountRoles \cup {NullText}, isDefault \in BOOLEAN :
          \E account \in {[name |-> name, role |-> role, is_default |-> isDefault,
                           active |-> TRUE]} :
              \E r \in {upsertQbdAccount(db, account)} :
                  Called("upsertQbdAccount", account, r, [id |-> r.id])

\* POST /qbd/accounts/default
SetDefaultQbdAccount ==
    /\ Len(log) < MaxAccountCalls
    /\ \E role \in AccountRoles, accountId \in 1..3 :
          \E r \in {setDefaultQbdAccount(db, role, accountId)} :
              Called("setDefaultQbdAccount", [role |-> role, accountId |-> accountId], r,
                     [id |-> r.id])

NextAccounts == UpsertQbdAccount \/ SetDefaultQbdAccount

SpecAccounts == InitAccounts /\ [][NextAccounts]_vars

----------------------------------------------------------------------------
(* C30: one default account per role *)

\* C30: after any sequence of upsertQbdAccount and setDefaultQbdAccount
\* calls at most one account of a role has is_default = TRUE, so that
\* getDefaultQbdAccounts can return only one map.
C30_OneDefaultPerRole ==
    /\ \A role \in AccountRoles : Cardinality(DefaultNames(db, role)) <= 1
    /\ Cardinality(getDefaultQbdAccounts(db)) = 1

\* What setDefaultQbdAccount leaves: the account it names is the only
\* default of the role.
C30_SetDefaultLeavesOne ==
    call.op = "setDefaultQbdAccount" =>
        DefaultNames(db, call.arg.role) =
            {db.qbd_accounts[i].name :
                i \in {call.arg.accountId} \cap (1..Len(db.qbd_accounts))}

\* Two accounts were stored as defaults of one role: the map may name
\* either.
C30_TwoDefaults ==
    /\ call.op = "upsertQbdAccount"
    /\ \E role \in AccountRoles :
          /\ Cardinality(DefaultNames(db, role)) = 2
          /\ Cardinality(DefaultNames(before, role)) = 1
    /\ Cardinality(getDefaultQbdAccounts(db)) = 2

\* The history was written: one exports row and a row per transaction id.
C21_HistoryWritten ==
    /\ call.op = "export-iif"
    /\ call.done
    /\ ~call.out.logged
    /\ Len(db.exports) = Len(before.exports) + 1
    /\ Len(db.export_transactions) = Len(before.export_transactions) + Len(call.transactionIds)

====
